---- MODULE Spec2Model ----
(***************************************************************************)
(* Contest Stats Aggregation Engine of the fantasy-baseball tracker        *)
(* (src/app.py): player identity resolution, roster resolution, the game   *)
(* log store, the stat aggregator, ranking and status, and the result      *)
(* snapshot manager, as a state machine over the persistent store, the     *)
(* in-process caches and the memoisation cache.                            *)
(*                                                                         *)
(* Conventions.  Dates are day numbers (0, 1, ...); the wall clock `now`   *)
(* counts ticks, TicksPerDay of them per day.  Python strings that the     *)
(* code parses are sequences of one-character strings.  Python floats are  *)
(* exact rationals [n, d] in lowest terms (rounding is not modelled).      *)
(* None is the empty sequence and a present value x is <<x>>.              *)
(***************************************************************************)
EXTENDS Integers, Sequences, FiniteSets, TLC

\* ------------------------------------------------------------------ bounds
\* The calendar runs over the days 0..MaxDay.
MaxDay == 2
\* Clock ticks per calendar day (the clock is finer than the date).
TicksPerDay == 2
\* Stored rows whose payload gets corrupted.
MaxCorrupt == 1
\* The longest inningsPitched text parse_ip is applied to.
MaxIpLen == 4

\* ------------------------------------------------------------- option type
None == <<>>
Some(x) == <<x>>
IsSome(o) == o # <<>>
The(o) == o[1]

\* ---------------------------------------------------------------- rationals
Abs(n) == IF n < 0 THEN -n ELSE n

RECURSIVE Gcd(_, _)
Gcd(a, b) == IF b = 0 THEN a ELSE Gcd(b, a % b)

\* The rational n/d (d # 0) in lowest terms with a positive denominator.
Rat(n, d) ==
    LET s == IF d < 0 THEN -1 ELSE 1
        g == Gcd(Abs(n), Abs(d))
    IN  [n |-> (s * n) \div g, d |-> (s * d) \div g]

Zero == [n |-> 0, d |-> 1]
RInt(k) == [n |-> k, d |-> 1]
RAdd(a, b) == Rat(a.n * b.d + b.n * a.d, a.d * b.d)
RMul(a, b) == Rat(a.n * b.n, a.d * b.d)
RDiv(a, b) == Rat(a.n * b.d, a.d * b.n)
RLess(a, b) == a.n * b.d < b.n * a.d
RLeq(a, b) == a.n * b.d <= b.n * a.d

\* ------------------------------------------------- Python string conversions
Digits == {"0", "1", "2", "3", "4", "5", "6", "7", "8", "9"}

DigitVal(c) ==
    CASE c = "0" -> 0 [] c = "1" -> 1 [] c = "2" -> 2 [] c = "3" -> 3
      [] c = "4" -> 4 [] c = "5" -> 5 [] c = "6" -> 6 [] c = "7" -> 7
      [] c = "8" -> 8 [] c = "9" -> 9

RECURSIVE Pow10(_)
Pow10(k) == IF k = 0 THEN 1 ELSE 10 * Pow10(k - 1)

RECURSIVE DigitsVal(_)
DigitsVal(s) ==
    IF s = <<>> THEN 0 ELSE 10 * DigitsVal(SubSeq(s, 1, Len(s) - 1)) + DigitVal(s[Len(s)])

AllDigits(s) == \A i \in 1..Len(s) : s[i] \in Digits

\* Positions of the character c in s.
Positions(s, c) == {i \in 1..Len(s) : s[i] = c}

\* Python's `sub in s` for strings.
Contains(s, sub) ==
    \E i \in 0..(Len(s) - Len(sub)) : \A j \in 1..Len(sub) : s[i + j] = sub[j]

\* float(s) on an unsigned decimal numeral: digits with at most one point and
\* at least one digit.  None stands for ValueError.
UFloat(s) ==
    LET dots == Positions(s, ".")
    IN  IF dots = {} THEN
            IF s # <<>> /\ AllDigits(s) THEN Some(RInt(DigitsVal(s))) ELSE None
        ELSE IF Cardinality(dots) = 1 THEN
            LET p == CHOOSE i \in dots : TRUE
                w == SubSeq(s, 1, p - 1)
                f == SubSeq(s, p + 1, Len(s))
            IN  IF AllDigits(w) /\ AllDigits(f) /\ Len(w) + Len(f) > 0
                THEN Some(RAdd(RInt(DigitsVal(w)), Rat(DigitsVal(f), Pow10(Len(f)))))
                ELSE None
        ELSE None

\* float(s): an optional sign, then an unsigned numeral.
Float(s) ==
    IF s # <<>> /\ s[1] \in {"-", "+"} THEN
        LET u == UFloat(Tail(s))
        IN  IF IsSome(u) THEN (IF s[1] = "-" THEN Some(RMul(RInt(-1), The(u))) ELSE u)
            ELSE None
    ELSE UFloat(s)

\* parse_ip: innings "W.F" are W whole innings plus F thirds; without a point
\* the plain value; any exception gives 0.0.
parse_ip(ip) ==
    LET dots == Positions(ip, ".")
    IN  IF dots = {} THEN
            (IF IsSome(Float(ip)) THEN The(Float(ip)) ELSE Zero)
        ELSE IF Cardinality(dots) = 1 THEN
            LET p == CHOOSE i \in dots : TRUE
                whole == Float(SubSeq(ip, 1, p - 1))
                frac == Float(SubSeq(ip, p + 1, Len(ip)))
            IN  IF IsSome(whole) /\ IsSome(frac)
                THEN RAdd(The(whole), RDiv(The(frac), RInt(3)))
                ELSE Zero
        ELSE Zero

\* ------------------------------------------------------------ stat categories
hitting_categories ==
    {"OBP", "HR", "RBI", "AVG", "HITS", "RUNS SCORED", "WALKS", "STOLEN BASES",
     "SLUGGING PERCENTAGE"}

pitching_categories ==
    {"INNINGS PITCHED", "HITS ALLOWED", "ERA", "WALKS ALLOWED", "STRIKEOUTS",
     "QUALITY STARTS", "WINS", "SAVES", "SAVES + HOLDS", "WHIP", "K/BB"}

valid_stats == hitting_categories \cup pitching_categories

ratio_categories == {"OBP", "AVG", "SLUGGING PERCENTAGE", "ERA", "WHIP", "K/BB"}

lower_is_better == {"HITS ALLOWED", "ERA", "WALKS ALLOWED", "WHIP"}

GroupOf(cat) == IF cat \in hitting_categories THEN "hitting" ELSE "pitching"

\* The value finalisation gives a ratio team with no denominator but a numerator.
Sentinel == 999

\* The factor of earned runs in the ERA numerator.
EraInnings == 9

\* The bound of total bases per at-bat in the slugging guard.
MaxBasesPerAB == 4

\* Hitters count in lineup slots up to this one.
MaxHitterSlot == 12

\* ------------------------------------------------ one player-day's statistics
\* What one raw value adds to aggregated_stats[key].
StatValue(key, value) ==
    IF key = "inningsPitched" THEN parse_ip(value)
    ELSE IF IsSome(Float(value)) THEN The(Float(value))
    ELSE IF key = "homeRuns" /\ Contains(value, <<"H", "R">>) THEN RInt(1)
    ELSE IF key = "rbi" /\ Contains(value, <<"R", "B", "I">>) THEN RInt(1)
    ELSE Zero

RECURSIVE SumKey(_, _, _)
SumKey(stats, key, i) ==
    IF i = 0 THEN Zero
    ELSE RAdd(SumKey(stats, key, i - 1),
              IF key \in DOMAIN stats[i] THEN StatValue(key, stats[i][key]) ELSE Zero)

\* aggregated_stats: the day's entries of a player (several on a doubleheader)
\* summed key by key.
AggregateDay(daily_stats_list) ==
    [key \in UNION {DOMAIN daily_stats_list[i] : i \in 1..Len(daily_stats_list)} |->
        SumKey(daily_stats_list, key, Len(daily_stats_list))]

\* aggregated_stats.get(key, 0)
Get(agg, key) == IF key \in DOMAIN agg THEN agg[key] ELSE Zero

\* A ratio accumulator that takes the quotient of each player-day.
AddRatioPerDay(data, num, den) ==
    IF den = Zero THEN data
    ELSE [data EXCEPT !.num = RAdd(@, RDiv(num, den)), !.den = RAdd(@, RInt(1))]

AddRatio(data, num, den) ==
    [data EXCEPT !.num = RAdd(@, num), !.den = RAdd(@, den)]

AddTotal(data, x) == [data EXCEPT !.total = RAdd(@, x)]

PlateAppearances(agg) ==
    RAdd(RAdd(Get(agg, "atBats"), Get(agg, "baseOnBalls")),
         RAdd(Get(agg, "hitByPitch"), Get(agg, "sacFlies")))

\* The slugging branch: the guard is on total bases only.
AccumulateSLG(data, agg) ==
    IF RLess(Zero, PlateAppearances(agg)) THEN
        IF RLess(RMul(RInt(MaxBasesPerAB), Get(agg, "atBats")), Get(agg, "totalBases"))
        THEN data
        ELSE AddRatio(data, Get(agg, "totalBases"), Get(agg, "atBats"))
    ELSE data

\* The category branch chain applied to one player-day: the team's accumulator
\* after it (unchanged where the code skips the player-day).
Accumulate(cat, data, agg, slot, aps) ==
    LET h == Get(agg, "hits")
        bb == Get(agg, "baseOnBalls")
        hbp == Get(agg, "hitByPitch")
        ab == Get(agg, "atBats")
        ip == Get(agg, "inningsPitched")
        er == Get(agg, "earnedRuns")
        pa == PlateAppearances(agg)
    IN  CASE cat = "OBP" ->
                IF RLess(Zero, pa) THEN
                    IF RLess(ab, h) THEN data
                    ELSE AddRatio(data, RAdd(RAdd(h, bb), hbp), pa)
                ELSE data
          [] cat = "AVG" ->
                IF RLess(Zero, pa) THEN
                    IF RLess(ab, h) THEN data ELSE AddRatio(data, h, ab)
                ELSE data
          [] cat = "HR" -> AddTotal(data, Get(agg, "homeRuns"))
          [] cat = "RBI" -> AddTotal(data, Get(agg, "rbi"))
          [] cat = "HITS" -> AddTotal(data, h)
          [] cat = "RUNS SCORED" -> AddTotal(data, Get(agg, "runs"))
          [] cat = "WALKS" -> AddTotal(data, bb)
          [] cat = "STOLEN BASES" -> AddTotal(data, Get(agg, "stolenBases"))
          [] cat = "SLUGGING PERCENTAGE" -> AccumulateSLG(data, agg)
          [] cat = "INNINGS PITCHED" ->
                IF slot \notin aps THEN data ELSE AddTotal(data, ip)
          [] cat = "HITS ALLOWED" -> AddTotal(data, h)
          [] cat = "ERA" ->
                IF RLess(Zero, ip) THEN
                    IF RLess(er, Zero) THEN data
                    ELSE AddRatio(data, RMul(er, RInt(EraInnings)), ip)
                ELSE data
          [] cat = "WALKS ALLOWED" -> AddTotal(data, bb)
          [] cat = "STRIKEOUTS" -> AddTotal(data, Get(agg, "strikeOuts"))
          [] cat = "QUALITY STARTS" -> AddTotal(data, Get(agg, "qualityStarts"))
          [] cat = "WINS" -> AddTotal(data, Get(agg, "wins"))
          [] cat = "SAVES" -> AddTotal(data, Get(agg, "saves"))
          [] cat = "SAVES + HOLDS" ->
                AddTotal(data, RAdd(Get(agg, "saves"), Get(agg, "holds")))
          [] cat = "WHIP" ->
                IF RLess(Zero, ip) THEN
                    IF RLess(h, Zero) \/ RLess(bb, Zero) THEN data
                    ELSE AddRatio(data, RAdd(h, bb), ip)
                ELSE data
          [] cat = "K/BB" -> AddRatio(data, Get(agg, "strikeOuts"), bb)

\* A team's empty accumulator.
NewData(cat) ==
    IF cat \in ratio_categories THEN [num |-> Zero, den |-> Zero] ELSE [total |-> Zero]

\* ------------------------------------------------------- ranking and status
\* Finalisation that gives every ratio team without a denominator the sentinel.
FinalizeSentinel(data) ==
    IF "num" \in DOMAIN data /\ "den" \in DOMAIN data THEN
        IF RLess(Zero, data.den) THEN RDiv(data.num, data.den)
        ELSE RInt(Sentinel)
    ELSE data.total

\* The value of a team at finalisation.
Finalize(data) ==
    IF "num" \in DOMAIN data /\ "den" \in DOMAIN data THEN
        IF RLess(Zero, data.den) THEN RDiv(data.num, data.den)
        ELSE IF RLess(Zero, data.num) THEN RInt(Sentinel)
        ELSE Zero
    ELSE data.total

\* The sort without its reverse argument: descending in every category.
BeforeDescending(cat, a, b) == RLess(b.value, a.value)

\* key(a) before key(b) in the order of rankings.sort.
Before(cat, a, b) ==
    IF cat \notin lower_is_better THEN RLess(b.value, a.value) ELSE RLess(a.value, b.value)

\* list.sort is stable (also with reverse=True): an entry goes after every
\* entry that does not come after it.
RECURSIVE InsertSorted(_, _, _)
InsertSorted(cat, sorted, x) ==
    IF sorted = <<>> THEN <<x>>
    ELSE IF Before(cat, x, Head(sorted)) THEN <<x>> \o sorted
    ELSE <<Head(sorted)>> \o InsertSorted(cat, Tail(sorted), x)

RECURSIVE SortRankings(_, _, _)
SortRankings(cat, rankings, i) ==
    IF i = 0 THEN <<>>
    ELSE InsertSorted(cat, SortRankings(cat, rankings, i - 1), rankings[i])

\* rankings: one (team, value) per key of team_stats, sorted.
Rankings(cat, team_stats) ==
    SortRankings(cat,
        [i \in 1..Len(team_stats) |->
            [team |-> team_stats[i].team, value |-> Finalize(team_stats[i].data)]],
        Len(team_stats))

\* The teams whose value equals the first-ranked value.
Winners(rankings) ==
    IF rankings = <<>> THEN <<>>
    ELSE SelectSeq([i \in 1..Len(rankings) |-> rankings[i]],
                   LAMBDA r : r.value = rankings[1].value)

WinnerNames(rankings) ==
    [i \in 1..Len(Winners(rankings)) |-> Winners(rankings)[i].team]

NotStartedStatus(start_date, today) ==
    [is_started |-> FALSE, days_to_start |-> Some(start_date - today),
     days_remaining |-> None, is_complete |-> FALSE, winner |-> None]

\* The status of a started contest.
StartedStatus(end_date, today, rankings) ==
    IF end_date > today THEN
        [is_started |-> TRUE, days_to_start |-> None,
         days_remaining |-> Some(end_date - today), is_complete |-> FALSE,
         winner |-> None]
    ELSE
        [is_started |-> TRUE, days_to_start |-> None, days_remaining |-> None,
         is_complete |-> TRUE, winner |-> Some(WinnerNames(rankings))]

\* ------------------------------------------------------------------- state
VARIABLES
    now,              \* the wall clock, in ticks
    contest,          \* the Contest row: None or <<[stat_category, start_date, end_date]>>
    results,          \* the ContestResult rows of the contest, oldest first
    memo,             \* cache.memoize entry of compute_contest_stats(contest_id)
    team_names_cache, \* team_names_cache[league_id]: None or <<names>>
    roster_cache,     \* roster_cache: <<start, end>> -> (day -> roster data)
    mlb_id_cache,     \* mlb_id_cache: ESPN player id -> MLB id
    game_log_cache,   \* game_log_cache: <<player id, group>> -> game log
    player_cache,     \* the PlayerCache table: ESPN player id -> row
    processed_players, \* the module-level set of the MLB ids seen on a day
    running,          \* the computations under way, when they run concurrently
    league_slots,     \* League.active_pitcher_slots of the contest's league
    espn_teams,       \* roster provider: the league's teams
    espn_rosters,     \* roster provider: day -> the teams' lineups
    mlb_people,       \* statistics provider: name search, name -> MLB ids
    mlb_logs,         \* statistics provider: <<MLB id, group>> -> season game log
    last              \* what the last request did and returned

vars ==
    <<now, contest, results, memo, team_names_cache, roster_cache, mlb_id_cache,
      game_log_cache, player_cache, processed_players, running, league_slots,
      espn_teams, espn_rosters, mlb_people, mlb_logs, last>>

provider == <<league_slots, espn_teams, espn_rosters, mlb_people, mlb_logs>>

caches ==
    <<team_names_cache, roster_cache, mlb_id_cache, game_log_cache, player_cache,
      processed_players>>

Days == 0..MaxDay

\* date.today()
Today == now \div TicksPerDay

\* A datetime's date.
DateOf(t) == t \div TicksPerDay

\* The memoisation timeout of 86400 seconds, in ticks.
MemoTimeout == TicksPerDay

\* The all-star break, 14 to 17 July 2025, on the model's calendar, whose day 0
\* is 12 July 2025.
all_star_break == {2, 3, 4, 5}

\* Weekly chunks of the roster requests.
chunk_size == 7

Min(a, b) == IF a <= b THEN a ELSE b

\* A finite map extended or overwritten at one key.
Put(f, k, v) == [x \in DOMAIN f \cup {k} |-> IF x = k THEN v ELSE f[x]]

EmptyMap == [x \in {} |-> None]

\* -------------------------------------------------------------- storage retry
\* The attempts of create_contest and of the storage retry loops.
max_attempts == 3

\* Max of two numbers.
Max(a, b) == IF a > b THEN a ELSE b

\* A store that is retried until the commit succeeds.
CommitRetryUnbounded(fails, attempts) == [stored |-> TRUE, commits |-> Max(fails, attempts) + 1]

\* The retry loop around a commit, `while attempts < max_attempts`, when the
\* first `fails` commits raise OperationalError: whether the row is stored and
\* the number of commits made.
RECURSIVE CommitRetry(_, _)
CommitRetry(fails, attempts) ==
    IF attempts >= max_attempts THEN [stored |-> FALSE, commits |-> attempts]
    ELSE IF attempts < fails THEN CommitRetry(fails, attempts + 1)
    ELSE [stored |-> TRUE, commits |-> attempts + 1]

\* The request c after the write w of a store: the most commits any one write
\* took, and the stores whose write was given up.
Written(c, w, store) ==
    [c EXCEPT !.commits = Max(@, w.commits),
              !.exhausted = IF w.stored THEN @ ELSE @ \cup {store}]

\* ------------------------------------------------------- identity resolution
manual_mlb_mappings ==
    [x \in {30820, 39832, 4917888, 40934, 31864, 32525, 5134630} |->
        CASE x = 30820 -> 458681 [] x = 39832 -> 660271 [] x = 4917888 -> 686973
          [] x = 40934 -> 642557 [] x = 31864 -> 592836 [] x = 32525 -> 593871
          [] x = 5134630 -> 684007]

\* The end of get_mlb_id after the write w of the PlayerCache row: the id is
\* returned whether or not the row was stored.
StoreMlbId(w, c, player_id, row, mlb_id) ==
    [c |-> IF w.stored
           THEN Written([c EXCEPT !.db = Put(@, player_id, row)], w, "identity")
           ELSE Written(c, w, "identity"),
     id |-> Some(mlb_id)]

\* get_mlb_id.  c carries the stores (db = PlayerCache, idc, glc) and the call
\* counters; env says which provider calls fail now.  The result is the stores
\* afterwards and the MLB id (None when unresolved).
get_mlb_id(c, env, player_name, player_id) ==
    IF player_name = "" THEN [c |-> c, id |-> None]
    ELSE IF player_id \in DOMAIN manual_mlb_mappings
    THEN [c |-> c, id |-> Some(manual_mlb_mappings[player_id])]
    ELSE IF player_id \in DOMAIN c.db /\ IsSome(c.db[player_id].mlb_id)
    THEN [c |-> c, id |-> c.db[player_id].mlb_id]
    ELSE LET called == [c EXCEPT !.statCalls = @ + 1]
         IN  IF player_id \in env.searchDown THEN [c |-> called, id |-> None]
             ELSE IF player_name \notin DOMAIN mlb_people \/ mlb_people[player_name] = <<>>
             THEN [c |-> called, id |-> None]
             ELSE LET mlb_id == mlb_people[player_name][1]
                      row == IF player_id \in DOMAIN c.db
                             THEN [c.db[player_id] EXCEPT !.mlb_id = Some(mlb_id)]
                             ELSE [mlb_id |-> Some(mlb_id), group |-> "hitting",
                                   game_log |-> None]
                  IN  StoreMlbId(CommitRetry(env.idFails, 0), called, player_id, row,
                                 mlb_id)

\* ------------------------------------------------------------- team and roster
\* get_team_names: the display name per team id, from the in-process cache or
\* the provider.  raised stands for the ValueError of a failed fetch.
get_team_names(c, env) ==
    IF IsSome(c.tnc) THEN [c |-> c, names |-> The(c.tnc), raised |-> FALSE]
    ELSE IF env.teamsDown
    THEN [c |-> [c EXCEPT !.teamCalls = @ + 1, !.teamFails = @ + 1],
          names |-> <<>>, raised |-> TRUE]
    ELSE [c |-> [c EXCEPT !.teamCalls = @ + 1, !.tnc = Some(espn_teams)],
          names |-> espn_teams, raised |-> FALSE]

\* team_names[team_id]
TeamName(team_names, team_id) ==
    LET i == CHOOSE j \in 1..Len(team_names) : team_names[j].id = team_id
    IN  team_names[i].name

\* The keys of team_stats in insertion order: each distinct name once.
RECURSIVE StatKeys(_, _)
StatKeys(team_names, i) ==
    IF i = 0 THEN <<>>
    ELSE LET before == StatKeys(team_names, i - 1)
         IN  IF \E j \in 1..Len(before) : before[j] = team_names[i].name
             THEN before
             ELSE Append(before, team_names[i].name)

InitTeamStats(cat, team_names) ==
    LET keys == StatKeys(team_names, Len(team_names))
    IN  [i \in 1..Len(keys) |-> [team |-> keys[i], data |-> NewData(cat)]]

\* The scoring period of a day (the season starts on 18 March; day 0 of the
\* model's calendar is 12 July, 116 days later).
ScoringPeriod(day) == day + 116 + 1

\* get_team_rosters without the test of roster_cache.
get_team_rostersFresh(c, env, start_date, end_date) ==
    LET cache_key == <<start_date, end_date>>
        rosters == [d \in start_date..end_date |->
                       IF d \in env.rosterDown THEN <<>> ELSE espn_rosters[d]]
    IN  [c |-> [c EXCEPT !.rc = Put(@, cache_key, rosters),
                         !.rosterCalls = @ + (end_date - start_date + 1),
                         !.periods = @ \o
                             [i \in 1..(end_date - start_date + 1) |->
                                 ScoringPeriod(start_date + (i - 1))],
                         !.failedDays = @ \cup
                             ((start_date..end_date) \cap env.rosterDown)],
         rosters |-> rosters]

\* get_team_rosters: the rosters of a chunk of days, from the in-process cache
\* or day by day from the provider; a failed day gives an empty roster.
get_team_rosters(c, env, start_date, end_date) ==
    LET cache_key == <<start_date, end_date>>
    IN  IF cache_key \in DOMAIN c.rc THEN [c |-> c, rosters |-> c.rc[cache_key]]
        ELSE LET rosters == [d \in start_date..end_date |->
                                IF d \in env.rosterDown THEN <<>> ELSE espn_rosters[d]]
             IN  [c |-> [c EXCEPT !.rc = Put(@, cache_key, rosters),
                                  !.rosterCalls = @ + (end_date - start_date + 1),
                                  !.periods = @ \o
                                      [i \in 1..(end_date - start_date + 1) |->
                                          ScoringPeriod(start_date + (i - 1))],
                                  !.failedDays = @ \cup
                                      ((start_date..end_date) \cap env.rosterDown)],
                  rosters |-> rosters]

\* The league's active pitcher slots without the default for a configuration
\* that names no slot among 13, 14, 15.
ActivePitcherSlotsNoDefault(cfg) ==
    IF cfg.kind = "json"
    THEN {cfg.slots[i] : i \in 1..Len(cfg.slots)} \cap {13, 14, 15}
    ELSE {13, 14, 15}

\* The league's active pitcher slots: the configured ones among 13, 14, 15, or
\* all three when none is configured, none is valid or the text is no JSON.
ActivePitcherSlots(cfg) ==
    LET default == {13, 14, 15}
    IN  IF cfg.kind = "json" THEN
            LET valid == {cfg.slots[i] : i \in 1..Len(cfg.slots)} \cap {13, 14, 15}
            IN  IF valid = {} THEN default ELSE valid
        ELSE default

\* The entries of a team that count for the category on a day.
IsStarted(cat, entry, aps) ==
    /\ entry.fullName # ""
    /\ IF cat \in hitting_categories THEN entry.lineupSlotId <= MaxHitterSlot
       ELSE entry.lineupSlotId \in aps

Started(cat, entries, aps) ==
    SelectSeq(entries, LAMBDA e : IsStarted(cat, e, aps))

\* --------------------------------------------------------------- game log store
\* A game of a day is in the provider's log from the last tick of that day on.
Published(entry) == entry.date * TicksPerDay + (TicksPerDay - 1) <= now

\* The splits the game-log endpoint returns now.
ProviderLog(mlb_id, group) ==
    IF <<mlb_id, group>> \in DOMAIN mlb_logs
    THEN SelectSeq(mlb_logs[<<mlb_id, group>>], Published)
    ELSE <<>>

\* The PlayerCache row of filter_by(espn_id, season, group), if any.
HasRow(db, player_id, group) == player_id \in DOMAIN db /\ db[player_id].group = group

\* The write w of a fetched game log into PlayerCache: the row of the group is
\* updated or a new row is inserted; a write given up after max_attempts leaves
\* PlayerCache as it was and the log is used all the same.
StoreGameLog(w, cached, player_id, mlb_id, group, splits) ==
    IF ~w.stored
    THEN [c |-> Written(cached, w, "game_log"), log |-> Some(splits)]
    ELSE IF HasRow(cached.db, player_id, group)
    THEN [c |-> Written([cached EXCEPT !.db[player_id].game_log = Some(splits)],
                        w, "game_log"),
          log |-> Some(splits)]
    ELSE IF player_id \in DOMAIN cached.db
    THEN [c |-> Written([cached EXCEPT !.raised = TRUE], w, "game_log"), log |-> None]
    ELSE [c |-> Written([cached EXCEPT !.db = Put(@, player_id,
                             [mlb_id |-> Some(mlb_id), group |-> group,
                              game_log |-> Some(splits)])], w, "game_log"),
          log |-> Some(splits)]

\* The game log of a started player requested from the provider whether or not
\* PlayerCache holds one.
LoadGameLogFresh(c, env, player_id, mlb_id, group) ==
    LET called == [c EXCEPT !.statCalls = @ + 1,
                            !.fetched = @ \cup {<<player_id, group>>}]
        splits == ProviderLog(mlb_id, group)
        cached == [called EXCEPT !.glc = Put(@, <<player_id, group>>, splits)]
    IN  IF player_id \in env.logDown \/ splits = <<>>
        THEN [c |-> called, log |-> None]
        ELSE StoreGameLog(CommitRetry(env.logFails, 0), cached, player_id, mlb_id,
                          group, splits)

\* The game log of a started player: from the PlayerCache row of the group, or
\* from the provider and then stored.  espn_id is unique in PlayerCache, so the
\* insert of a second row for a player raises IntegrityError, which no handler
\* of the store retries: raised.  log is None where the code skips the player.
LoadGameLog(c, env, player_id, mlb_id, group) ==
    IF HasRow(c.db, player_id, group) /\ IsSome(c.db[player_id].game_log)
    THEN [c |-> c, log |-> c.db[player_id].game_log]
    ELSE LET called == [c EXCEPT !.statCalls = @ + 1,
                                 !.fetched = @ \cup {<<player_id, group>>}]
             splits == ProviderLog(mlb_id, group)
             cached == [called EXCEPT !.glc = Put(@, <<player_id, group>>, splits)]
         IN  IF player_id \in env.logDown \/ splits = <<>>
             THEN [c |-> called, log |-> None]
             ELSE StoreGameLog(CommitRetry(env.logFails, 0), cached, player_id, mlb_id,
                               group, splits)

\* The stat dictionaries of a game log on a date.
DailyStats(game_log, date) ==
    LET on == SelectSeq(game_log, LAMBDA e : e.date = date)
    IN  [i \in 1..Len(on) |-> on[i].stat]

\* team_stats with the accumulator of one team replaced.
UpdateTeam(ts, team, cat, agg, slot, aps) ==
    [i \in 1..Len(ts) |->
        IF ts[i].team = team
        THEN [ts[i] EXCEPT !.data = Accumulate(cat, @, agg, slot, aps)]
        ELSE ts[i]]

\* The game log the aggregation reads: the one of game_log_cache.
GameLogOf(g, key) == IF key \in DOMAIN g.c.glc THEN g.c.glc[key] ELSE The(g.log)

\* The day's summed statistics agg of a player added to the team's accumulator.
AddPlayerDay(c, cat, date, team, entry, aps, agg, ts) ==
    [c EXCEPT !.found = TRUE,
              !.ts = ts,
              !.audit = Append(@, [date |-> date, team |-> team,
                                   player_id |-> entry.playerId, stats |-> agg,
                                   before |-> c.ts, after |-> ts])]

\* The statistics of a player's games of the date, if any, go into the team.
AddDailyStats(c, cat, date, team, entry, aps, agg) ==
    AddPlayerDay(c, cat, date, team, entry, aps, agg,
                 UpdateTeam(c.ts, team, cat, agg, entry.lineupSlotId, aps))

\* What follows the load g of the game log of a started player.
UseGameLog(g, cat, date, team, entry, aps, daily) ==
    IF g.c.raised \/ ~IsSome(g.log) THEN g.c
    ELSE IF daily = <<>> THEN g.c
    ELSE AddDailyStats(g.c, cat, date, team, entry, aps, AggregateDay(daily))

\* The daily statistics of the date in the loaded game log g.
DailyOf(g, key, date) ==
    IF g.c.raised \/ ~IsSome(g.log) THEN <<>> ELSE DailyStats(GameLogOf(g, key), date)

LoadAndAdd(g, cat, date, team, entry, aps) ==
    UseGameLog(g, cat, date, team, entry, aps,
               DailyOf(g, <<entry.playerId, GroupOf(cat)>>, date))

\* What follows the resolution when an unresolved player ends the computation.
WithMlbIdOrAbort(r, env, cat, date, team, entry, aps) ==
    IF ~IsSome(r.id) THEN [r.c EXCEPT !.raised = TRUE]
    ELSE IF The(r.id) \in r.c.seen
    THEN [r.c EXCEPT !.idc = Put(@, entry.playerId, The(r.id))]
    ELSE LoadAndAdd(
             LoadGameLog([r.c EXCEPT !.idc = Put(@, entry.playerId, The(r.id)),
                                     !.seen = @ \cup {The(r.id)}],
                         env, entry.playerId, The(r.id), GroupOf(cat)),
             cat, date, team, entry, aps)

\* What follows the resolution without the test of processed_players.
WithMlbIdUnseen(r, env, cat, date, team, entry, aps) ==
    IF ~IsSome(r.id) THEN r.c
    ELSE LoadAndAdd(
             LoadGameLog([r.c EXCEPT !.idc = Put(@, entry.playerId, The(r.id)),
                                     !.seen = @ \cup {The(r.id)}],
                         env, entry.playerId, The(r.id), GroupOf(cat)),
             cat, date, team, entry, aps)

\* What follows the resolution r of a started player's identity: an unresolved
\* player and a player already seen on the day are skipped.
WithMlbId(r, env, cat, date, team, entry, aps) ==
    IF ~IsSome(r.id) THEN r.c
    ELSE IF The(r.id) \in r.c.seen
    THEN [r.c EXCEPT !.idc = Put(@, entry.playerId, The(r.id))]
    ELSE LoadAndAdd(
             LoadGameLog([r.c EXCEPT !.idc = Put(@, entry.playerId, The(r.id)),
                                     !.seen = @ \cup {The(r.id)}],
                         env, entry.playerId, The(r.id), GroupOf(cat)),
             cat, date, team, entry, aps)

\* The MLB id of a roster entry: from mlb_id_cache or from get_mlb_id.
ResolvePlayer(c, env, entry) ==
    IF entry.playerId \in DOMAIN c.idc
    THEN [c |-> c, id |-> Some(c.idc[entry.playerId])]
    ELSE get_mlb_id(c, env, entry.fullName, entry.playerId)

\* One started roster entry of a day: resolve the player, skip a player already
\* seen today, load the game log, add the day's statistics to the team.
ProcessPlayer(c, env, cat, date, team, entry, aps) ==
    WithMlbId(ResolvePlayer(c, env, entry), env, cat, date, team, entry, aps)

RECURSIVE ProcessPlayers(_, _, _, _, _, _, _)
ProcessPlayers(c, env, cat, date, team, players, aps) ==
    IF players = <<>> \/ c.raised THEN c
    ELSE ProcessPlayers(ProcessPlayer(c, env, cat, date, team, Head(players), aps),
                        env, cat, date, team, Tail(players), aps)

\* started_players[team_id] = started, as observed.
NoteStarted(c, date, team_id, started) ==
    [c EXCEPT !.started = @ \cup {[date |-> date, team |-> team_id,
                                   entry |-> started[i]] : i \in 1..Len(started)}]

RECURSIVE ProcessTeams(_, _, _, _, _, _, _)
ProcessTeams(c, env, cat, date, team_names, roster_data, aps) ==
    IF roster_data = <<>> \/ c.raised THEN c
    ELSE LET t == Head(roster_data)
         IN  ProcessTeams(
                 ProcessPlayers(NoteStarted(c, date, t.id, Started(cat, t.entries, aps)),
                                env, cat, date, TeamName(team_names, t.id),
                                Started(cat, t.entries, aps), aps),
                 env, cat, date, team_names, Tail(roster_data), aps)

\* The test of a day without roster data with the category left out.
NoRosterIsNoDataAnyCategory(cat, date) == date \notin all_star_break

\* A day without roster data is a no-data day, except a day of the all-star
\* break in a pitching category.
NoRosterIsNoData(cat, date) ==
    date \notin all_star_break \/ cat \notin pitching_categories

\* A day on which no started player had statistics is a no-data day in the
\* pitching categories, outside the all-star break.
NoStatsIsNoData(cat, date) ==
    cat \in pitching_categories /\ date \notin all_star_break

\* The end of a day whose rosters were processed into c.
CloseDay(c, cat, date) ==
    IF ~c.raised /\ ~c.found /\ NoStatsIsNoData(cat, date)
    THEN [c EXCEPT !.ndd = Append(@, date)]
    ELSE c

\* One day of the aggregation with the day's roster data.
ProcessRoster(c, env, cat, date, roster_data, team_names, aps) ==
    IF roster_data = <<>> THEN
        (IF NoRosterIsNoData(cat, date) THEN [c EXCEPT !.ndd = Append(@, date)] ELSE c)
    ELSE IF \E i \in 1..Len(roster_data) :
                \A j \in 1..Len(team_names) : team_names[j].id # roster_data[i].id
    THEN [c EXCEPT !.raised = TRUE]
    ELSE CloseDay(ProcessTeams(c, env, cat, date, team_names, roster_data, aps),
                  cat, date)

\* One day of the aggregation without processed_players.clear().
ProcessDayKeepSeen(c, env, cat, date, rosters, team_names, aps) ==
    ProcessRoster([c EXCEPT !.found = FALSE, !.days = Append(@, date)], env, cat, date,
                  IF date \in DOMAIN rosters THEN rosters[date] ELSE <<>>,
                  team_names, aps)

\* One day of the aggregation.
ProcessDay(c, env, cat, date, rosters, team_names, aps) ==
    ProcessRoster([c EXCEPT !.seen = {}, !.found = FALSE, !.days = Append(@, date)],
                  env, cat, date,
                  IF date \in DOMAIN rosters THEN rosters[date] ELSE <<>>,
                  team_names, aps)

RECURSIVE ProcessDays(_, _, _, _, _, _, _, _)
ProcessDays(c, env, cat, chunk_date, chunk_end, rosters, team_names, aps) ==
    IF chunk_date > chunk_end \/ c.raised THEN c
    ELSE ProcessDays(ProcessDay(c, env, cat, chunk_date, rosters, team_names, aps),
                     env, cat, chunk_date + 1, chunk_end, rosters, team_names, aps)

\* The weekly chunks with the next chunk starting two days after the last.
RECURSIVE ProcessChunksGap(_, _, _, _, _, _, _)
ProcessChunksGap(c, env, cat, current, effective_end, team_names, aps) ==
    IF current > effective_end \/ c.raised THEN c
    ELSE LET chunk_end == Min(current + (chunk_size - 1), effective_end)
             r == get_team_rosters(c, env, current, chunk_end)
         IN  ProcessChunksGap(
                 ProcessDays(r.c, env, cat, current, chunk_end, r.rosters, team_names, aps),
                 env, cat, chunk_end + 2, effective_end, team_names, aps)

\* The weekly chunks from current to effective_end.
RECURSIVE ProcessChunks(_, _, _, _, _, _, _)
ProcessChunks(c, env, cat, current, effective_end, team_names, aps) ==
    IF current > effective_end \/ c.raised THEN c
    ELSE LET chunk_end == Min(current + (chunk_size - 1), effective_end)
             r == get_team_rosters(c, env, current, chunk_end)
         IN  ProcessChunks(
                 ProcessDays(r.c, env, cat, current, chunk_end, r.rosters, team_names, aps),
                 env, cat, chunk_end + 1, effective_end, team_names, aps)

\* ------------------------------------------------------- compute_contest_stats
ChartData(cat, rankings) ==
    [labels |-> [i \in 1..Len(rankings) |-> rankings[i].team],
     label |-> cat,
     data |-> [i \in 1..Len(rankings) |-> rankings[i].value]]

NotStartedResult(cat, start_date, today) ==
    [rankings |-> <<>>, chart_data |-> ChartData(cat, <<>>),
     warning_message |-> [text |-> "Contest not started yet.", days |-> <<>>],
     status |-> NotStartedStatus(start_date, today)]

\* The warning names the no-data days.
WarningMessage(no_data_days) ==
    IF no_data_days # <<>> THEN [text |-> "Warning: No pitching stats found", days |-> no_data_days]
    ELSE [text |-> "", days |-> <<>>]

StartedResult(cat, end_date, today, team_stats, no_data_days) ==
    LET rankings == Rankings(cat, team_stats)
    IN  [rankings |-> rankings, chart_data |-> ChartData(cat, rankings),
         warning_message |-> WarningMessage(no_data_days),
         status |-> StartedStatus(end_date, today, rankings)]

\* What compute_contest_stats returns or raises after the chunks: done holds
\* the stores, the accumulators and the no-data days.
Finish(done, ct, today) ==
    IF done.raised THEN [c |-> done, raised |-> TRUE, value |-> None]
    ELSE [c |-> done, raised |-> FALSE,
          value |-> Some(StartedResult(ct.stat_category, ct.end_date, today,
                                       done.ts, done.ndd))]

\* The aggregation of a started contest once the team names t are fetched.
Aggregate(t, env, ct, today) ==
    IF t.raised THEN [c |-> t.c, raised |-> TRUE, value |-> None]
    ELSE Finish(ProcessChunks(
                    [t.c EXCEPT !.ts = InitTeamStats(ct.stat_category, t.names),
                                !.ndd = <<>>, !.audit = <<>>],
                    env, ct.stat_category, ct.start_date, Min(ct.end_date, today),
                    t.names, ActivePitcherSlots(league_slots)),
                ct, today)

\* contest.stat_category.upper(), on the category names of the model.
upper(s) ==
    CASE s = "hr" -> "HR"
      [] s = "era" -> "ERA"
      [] s = "xyz" -> "XYZ"
      [] OTHER -> s

\* The body with the test of the category placed after the fetch of the team
\* names.
ValidatedAfterTeams(c, env, ct) ==
    IF ct.stat_category \notin valid_stats
    THEN [c |-> get_team_names(c, env).c, raised |-> TRUE, value |-> None]
    ELSE IF ct.start_date > Today
    THEN [c |-> c, raised |-> FALSE,
          value |-> Some(NotStartedResult(ct.stat_category, ct.start_date, Today))]
    ELSE Aggregate(get_team_names(c, env), env, ct, Today)

\* The body of compute_contest_stats from the test of the category on, ct
\* holding the category in upper case.
Validated(c, env, ct) ==
    IF ct.stat_category \notin valid_stats THEN [c |-> c, raised |-> TRUE, value |-> None]
    ELSE IF ct.start_date > Today
    THEN [c |-> c, raised |-> FALSE,
          value |-> Some(NotStartedResult(ct.stat_category, ct.start_date, Today))]
    ELSE Aggregate(get_team_names(c, env), env, ct, Today)

\* The body of compute_contest_stats for the contest ct at the current time:
\* the stores afterwards, and the value returned or raised.
ComputeBody(c, env, ct) ==
    Validated(c, env, [ct EXCEPT !.stat_category = upper(@)])

\* A memoised value is served for 86400 seconds.
MemoValid(m) == IsSome(m) /\ now - The(m).at < MemoTimeout

\* A value the body returns is memoised, an exception is not.
Memoize(r) ==
    IF r.raised THEN r
    ELSE [r EXCEPT !.c.memo = Some([value |-> The(r.value), at |-> now])]

\* compute_contest_stats as its callers see it, under @cache.memoize: a value
\* memoised within the timeout is returned without running the body.
compute_contest_stats(c, env, ct) ==
    IF MemoValid(c.memo)
    THEN [c |-> [c EXCEPT !.calls = @ + 1, !.memoHits = @ + 1],
          raised |-> FALSE, value |-> Some(The(c.memo).value)]
    ELSE Memoize(ComputeBody([c EXCEPT !.calls = @ + 1, !.executed = @ + 1], env, ct))

\* The stores and counters a request starts with.
Ctx ==
    [tnc |-> team_names_cache, rc |-> roster_cache, idc |-> mlb_id_cache,
     glc |-> game_log_cache, db |-> player_cache, memo |-> memo,
     calls |-> 0, executed |-> 0, memoHits |-> 0,
     statCalls |-> 0, rosterCalls |-> 0, teamCalls |-> 0, failedDays |-> {},
     ts |-> <<>>, ndd |-> <<>>, seen |-> processed_players, found |-> FALSE,
     raised |-> FALSE, audit |-> <<>>, commits |-> 0, exhausted |-> {},
     teamFails |-> 0, days |-> <<>>, periods |-> <<>>, started |-> {},
     fetched |-> {}]

\* The stores after a request.
Commit(c) ==
    /\ team_names_cache' = c.tnc
    /\ roster_cache' = c.rc
    /\ mlb_id_cache' = c.idc
    /\ game_log_cache' = c.glc
    /\ player_cache' = c.db
    /\ processed_players' = c.seen
    /\ memo' = c.memo

\* The computations that may run at the same time, one per request thread.
Computations == {1, 2}

\* The number of ContestResult rows made so far: the rows stored and the rows
\* of the requests that have not committed theirs yet.
Created ==
    Len(results) + Cardinality({p \in Computations : running[p].phase = "commit"})

\* Whether row a is not later than row b by last_updated. datetime.now() gives
\* every row its own instant: rows made within one tick of the model's clock
\* are ordered by the order in which they were made.
NotAfter(a, b) ==
    \/ a.last_updated < b.last_updated
    \/ a.last_updated = b.last_updated /\ a.instant <= b.instant

\* order_by(ContestResult.last_updated.asc()).first(): the oldest row.
OldestIndex(rows) ==
    CHOOSE i \in 1..Len(rows) : \A j \in 1..Len(rows) : NotAfter(rows[i], rows[j])

\* order_by(ContestResult.last_updated.desc()).first() of a non-empty table.
LatestIndex(rows) ==
    CHOOSE i \in 1..Len(rows) : \A j \in 1..Len(rows) : NotAfter(rows[j], rows[i])

Latest(rows) == rows[LatestIndex(rows)]

\* The new ContestResult row of a computed value.
NewResult(value) ==
    [rankings |-> value.rankings, chart_data |-> value.chart_data,
     warning_message |-> value.warning_message, status |-> value.status,
     last_updated |-> now, instant |-> Created + 1, decodes |-> TRUE]

\* What a stored row decodes to.
Stored(row) ==
    [rankings |-> row.rankings, chart_data |-> row.chart_data,
     warning_message |-> row.warning_message, status |-> row.status]

\* What a request leaves in `last`: what it found stored (had, decoded, stamp:
\* the latest row, whether it decodes, its date), what it returned, the number
\* of rows before and after it, and what its computation did (the calls of
\* compute_contest_stats, the runs of its body, the provider calls, the days
\* whose roster fetch failed, the accumulators and each player-day added, the
\* days processed and the scoring periods requested, in order, the entries put
\* in started_players, the players and groups requested at the game-log
\* endpoint).
Outcome(op, c, outcome, value, reused, rows) ==
    [op |-> op, today |-> Today, outcome |-> outcome, value |-> value,
     reused |-> reused,
     had |-> results # <<>>,
     decoded |-> results # <<>> /\ Latest(results).decodes,
     stamp |-> IF results # <<>> THEN DateOf(Latest(results).last_updated) ELSE 0,
     before |-> Len(results), after |-> Len(rows),
     calls |-> c.calls, executed |-> c.executed,
     memoHits |-> c.memoHits, statCalls |-> c.statCalls,
     rosterCalls |-> c.rosterCalls, teamCalls |-> c.teamCalls,
     failedDays |-> c.failedDays, team_stats |-> c.ts, audit |-> c.audit,
     commits |-> c.commits, exhausted |-> c.exhausted, teamFails |-> c.teamFails,
     days |-> c.days, periods |-> c.periods, started |-> c.started,
     fetched |-> c.fetched]

\* ------------------------------------------------------------- get_contest_data
\* needs_update with the date test off by one: a row of today counts as stale.
NeedsUpdateSameDay(ct) ==
    \/ results = <<>>
    \/ /\ DateOf(Latest(results).last_updated) <= Today
       /\ ct.end_date >= Today

\* needs_update without the test of the end date: a stale row is always renewed.
NeedsUpdateIgnoringEnd(ct) ==
    \/ results = <<>>
    \/ DateOf(Latest(results).last_updated) < Today

\* needs_update of get_contest_data, before the stored row is decoded.
NeedsUpdate(ct) ==
    \/ results = <<>>
    \/ /\ DateOf(Latest(results).last_updated) < Today
       /\ ct.end_date >= Today

\* The end of a request that answers a failed computation with the latest
\* stored row, when there is one that decodes.
StoreResultOrStale(op, r) ==
    IF r.raised /\ results # <<>> /\ Latest(results).decodes
    THEN /\ last' = Outcome(op, r.c, "ok", Some(Stored(Latest(results))), TRUE,
                            results)
         /\ Commit(r.c)
         /\ UNCHANGED results
    ELSE IF r.raised
    THEN /\ last' = Outcome(op, r.c, "raise", None, FALSE, results)
         /\ Commit(r.c)
         /\ UNCHANGED results
    ELSE /\ results' = Append(results, NewResult(The(r.value)))
         /\ last' = Outcome(op, r.c, "ok", r.value, FALSE, results')
         /\ Commit(r.c)

\* The end of a request that called compute_contest_stats with result r: a
\* returned value is stored as a new ContestResult row, an exception stores none.
StoreResult(op, r) ==
    IF r.raised
    THEN /\ last' = Outcome(op, r.c, "raise", None, FALSE, results)
         /\ Commit(r.c)
         /\ UNCHANGED results
    ELSE /\ results' = Append(results, NewResult(The(r.value)))
         /\ last' = Outcome(op, r.c, "ok", r.value, FALSE, results')
         /\ Commit(r.c)

\* The retry loop of get_contest_data: an attempt calls compute_contest_stats
\* and commits the new row; a commit that raises OperationalError starts the
\* next attempt, any other exception ends the request, and so does the
\* max_attempts-th failed commit.
RECURSIVE ContestDataAttempt(_, _, _, _)
RECURSIVE SaveResult(_, _, _, _)
SaveResult(r, env, ct, attempts) ==
    IF r.raised THEN r
    ELSE IF attempts < env.snapFails
    THEN ContestDataAttempt([r.c EXCEPT !.commits = Max(@, attempts + 1)], env, ct,
                            attempts + 1)
    ELSE [r EXCEPT !.c.commits = Max(@, attempts + 1)]

ContestDataAttempt(c, env, ct, attempts) ==
    IF attempts >= max_attempts
    THEN [c |-> [c EXCEPT !.exhausted = @ \cup {"snapshot"}], raised |-> TRUE,
          value |-> None]
    ELSE SaveResult(compute_contest_stats(c, env, ct), env, ct, attempts)

\* get_contest_data(contest_id) under the provider conditions env.
GetContestData(env) ==
    /\ IsSome(contest)
    /\ IF ~NeedsUpdate(The(contest)) /\ Latest(results).decodes
       THEN /\ last' = Outcome("get", Ctx, "ok",
                               Some(Stored(Latest(results))), TRUE, results)
            /\ UNCHANGED <<results, memo, caches>>
       ELSE StoreResult("get", ContestDataAttempt(Ctx, env, The(contest), 0))
    /\ UNCHANGED <<now, contest, provider, running>>

\* --------------------------------------------------------------- create_contest
\* The retry loop of create_contest around compute_contest_stats: attempt
\* number attempts + 1 runs under envs[attempts + 1].
RECURSIVE InitialStats(_, _, _, _)
RECURSIVE Retry(_, _, _, _)
Retry(r, envs, ct, attempts) ==
    IF r.raised
    THEN InitialStats([r.c EXCEPT !.raised = FALSE], envs, ct, attempts + 1)
    ELSE r

InitialStats(c, envs, ct, attempts) ==
    IF attempts >= max_attempts THEN [c |-> c, raised |-> TRUE, value |-> None]
    ELSE Retry(compute_contest_stats(c, envs[attempts + 1], ct), envs, ct, attempts)

\* create_contest with a valid form: the contest is stored, and when it has
\* started its first result is computed and stored.
CreateContest(stat_category, start_date, end_date, envs) ==
    /\ contest = None
    /\ start_date < end_date
    /\ contest' = Some([stat_category |-> stat_category, start_date |-> start_date,
                        end_date |-> end_date])
    /\ IF start_date <= Today
       THEN StoreResult("create",
                InitialStats(Ctx, envs,
                    [stat_category |-> stat_category, start_date |-> start_date,
                     end_date |-> end_date], 0))
       ELSE /\ last' = Outcome("create", Ctx, "none", None, FALSE, results)
            /\ UNCHANGED <<results, memo, caches>>
    /\ UNCHANGED <<now, provider, running>>

\* ------------------------------------------------------------------ environment
\* Time passes.
Tick ==
    /\ now < (MaxDay + 1) * TicksPerDay - 1
    /\ now' = now + 1
    /\ UNCHANGED <<contest, results, memo, caches, provider, running, last>>

\* The payload of the latest stored row no longer decodes as JSON.
CorruptSnapshot ==
    /\ results # <<>>
    /\ Latest(results).decodes
    /\ Cardinality({i \in 1..Len(results) : ~results[i].decodes}) < MaxCorrupt
    /\ results' = [results EXCEPT ![LatestIndex(results)].decodes = FALSE]
    /\ UNCHANGED <<now, contest, memo, caches, provider, running, last>>

\* ---------------------------------------------------------------- provider data
\* The decimal numeral of a natural number.
RECURSIVE Dec(_)
Dec(k) ==
    LET d == <<"0", "1", "2", "3", "4", "5", "6", "7", "8", "9">>
    IN  IF k < 10 THEN <<d[k + 1]>> ELSE Dec(k \div 10) \o <<d[(k % 10) + 1]>>

Hitting(hr, h, ab, tb, bb) ==
    [homeRuns |-> Dec(hr), hits |-> Dec(h), atBats |-> Dec(ab), totalBases |-> Dec(tb),
     baseOnBalls |-> Dec(bb)]

Pitching(ip, er, k, bb, h) ==
    [inningsPitched |-> ip, earnedRuns |-> Dec(er), strikeOuts |-> Dec(k),
     baseOnBalls |-> Dec(bb), hits |-> Dec(h)]

\* The game log with the games games[d] on each day d.
RECURSIVE LogOf(_, _)
LogOf(games, d) ==
    IF d < 0 THEN <<>>
    ELSE LogOf(games, d - 1) \o
         [i \in 1..Len(games[d]) |-> [date |-> d, stat |-> games[d][i]]]

Entry(player_id, name, slot) ==
    [playerId |-> player_id, fullName |-> name, lineupSlotId |-> slot]

\* Two teams, each with a hitter in a hitting slot and a pitcher in a pitching
\* slot, the same lineup every day.
SeasonTeams == <<[id |-> 1, name |-> "A"], [id |-> 2, name |-> "B"]>>

SeasonRosters ==
    [d \in Days |->
        <<[id |-> 1, entries |-> <<Entry(1001, "Joe Hitter", 5),
                                   Entry(30820, "Lance Lynn", 13)>>],
          [id |-> 2, entries |-> <<Entry(1002, "Sam Batter", 3),
                                   Entry(39832, "Shohei Ohtani", 14)>>]>>]

SeasonPeople ==
    [name \in {"Joe Hitter", "Sam Batter"} |->
        IF name = "Joe Hitter" THEN <<501>> ELSE <<502>>]

\* Team A hits 2 home runs on day 0 and none on day 1, team B one on each.
JoeGames ==
    [d \in Days |->
        CASE d = 0 -> <<Hitting(2, 2, 4, 8, 0)>>
          [] d = 1 -> <<Hitting(0, 0, 3, 0, 1)>>
          [] OTHER -> <<Hitting(1, 1, 4, 4, 0)>>]

SamGames ==
    [d \in Days |->
        CASE d = 0 -> <<Hitting(1, 1, 4, 4, 0)>>
          [] d = 1 -> <<Hitting(1, 2, 4, 5, 0)>>
          [] OTHER -> <<>>]

LynnGames ==
    [d \in Days |->
        IF d % 2 = 0 THEN <<Pitching(<<"6", ".", "2">>, 2, 5, 0, 4)>> ELSE <<>>]

OhtaniGames ==
    [d \in Days |->
        IF d = 1 THEN <<Pitching(<<"7", ".", "0">>, 0, 9, 1, 3)>> ELSE <<>>]

SeasonLogs ==
    [k \in {<<501, "hitting">>, <<502, "hitting">>, <<458681, "pitching">>,
            <<660271, "pitching">>} |->
        CASE k = <<501, "hitting">> -> LogOf(JoeGames, MaxDay)
          [] k = <<502, "hitting">> -> LogOf(SamGames, MaxDay)
          [] k = <<458681, "pitching">> -> LogOf(LynnGames, MaxDay)
          [] k = <<660271, "pitching">> -> LogOf(OhtaniGames, MaxDay)]

\* League.active_pitcher_slots: no text, JSON text or text that is no JSON.
NoSlots == [kind |-> "none", slots |-> <<>>]

\* The provider conditions of a request.
\* idFails, logFails and snapFails are the numbers of commits of a write to the
\* identity cache, the game-log cache and the snapshots that fail in a row.
EnvUp ==
    [teamsDown |-> FALSE, rosterDown |-> {}, searchDown |-> {}, logDown |-> {},
     idFails |-> 0, logFails |-> 0, snapFails |-> 0]

EnvTeamsDown == [EnvUp EXCEPT !.teamsDown = TRUE]

Envs ==
    {EnvUp, EnvTeamsDown}
        \cup {[EnvUp EXCEPT !.rosterDown = {d}] : d \in Days}

\* The categories of the contests of Spec.
Categories == {"HR", "ERA"}

\* The start and end dates of the contests of Spec: a contest that is over on
\* the last day of the calendar, one that ends on it, one that starts on it.
ContestDates == {<<0, 1>>, <<1, 2>>, <<2, 3>>}

\* The provider conditions of the attempts of create_contest: the team fetch
\* fails in the first k attempts, then env holds.
AttemptEnvs(k, env) == [i \in 1..max_attempts |-> IF i <= k THEN EnvTeamsDown ELSE env]

\* ------------------------------------------------------------ the specification
\* A computation that is not under way.  Of a running one: the loop it is in
\* (phase), the chunk (current, chunk_end, rosters), the day (chunk_date), the
\* started players of the day still to process (pending), and its local
\* variables team_names, team_stats, no_data_days and daily_stats_found; the
\* attempts counted by get_contest_data (attempts) and by compute_contest_stats
\* (body_attempts), and the most commits a store of a cache row has tried.
NotRunning ==
    [phase |-> "idle", current |-> 0, chunk_end |-> 0, chunk_date |-> 0,
     rosters |-> EmptyMap, pending |-> <<>>, team_names |-> <<>>,
     team_stats |-> <<>>, no_data_days |-> <<>>, daily_stats_found |-> FALSE,
     value |-> None, attempts |-> 0, body_attempts |-> 0, commits |-> 0]

NoRequest ==
    [op |-> "none", today |-> 0, outcome |-> "none", value |-> None, reused |-> FALSE,
     had |-> FALSE, decoded |-> FALSE, stamp |-> 0, before |-> 0, after |-> 0,
     calls |-> 0, executed |-> 0, memoHits |-> 0, statCalls |-> 0,
     rosterCalls |-> 0, teamCalls |-> 0, failedDays |-> {}, team_stats |-> <<>>,
     audit |-> <<>>, commits |-> 0, exhausted |-> {}, teamFails |-> 0,
     days |-> <<>>, periods |-> <<>>, started |-> {}, fetched |-> {}]

\* The in-process caches of a process that has just started, an empty
\* PlayerCache table.
InitCaches ==
    /\ memo = None
    /\ team_names_cache = None
    /\ roster_cache = EmptyMap
    /\ mlb_id_cache = EmptyMap
    /\ game_log_cache = EmptyMap
    /\ player_cache = EmptyMap
    /\ processed_players = {}
    /\ running = [p \in Computations |-> NotRunning]

InitStores ==
    /\ contest = None
    /\ results = <<>>
    /\ InitCaches
    /\ last = NoRequest

Init ==
    /\ now = 0
    /\ InitStores
    /\ league_slots = NoSlots
    /\ espn_teams = SeasonTeams
    /\ espn_rosters = SeasonRosters
    /\ mlb_people = SeasonPeople
    /\ mlb_logs = SeasonLogs

Create ==
    \E cat \in Categories, dates \in ContestDates, k \in 0..max_attempts, env \in Envs :
        CreateContest(cat, dates[1], dates[2], AttemptEnvs(k, env))

Read == \E env \in Envs : GetContestData(env)

Next == Create \/ Read \/ Tick \/ CorruptSnapshot

Spec == Init /\ [][Next]_vars

\* ------------------------------------------- the aggregation over every category
\* Further statistics of a hitter's and of a pitcher's game.
HitExtra(rbi, runs, sb, hbp, sf) ==
    [rbi |-> Dec(rbi), runs |-> Dec(runs), stolenBases |-> Dec(sb),
     hitByPitch |-> Dec(hbp), sacFlies |-> Dec(sf)]

PitchExtra(w, sv, hld, qs) ==
    [wins |-> Dec(w), saves |-> Dec(sv), holds |-> Dec(hld), qualityStarts |-> Dec(qs)]

\* The season of Spec with every statistic the categories read.
JoeFull ==
    [d \in Days |->
        CASE d = 0 -> <<Hitting(2, 2, 4, 8, 0) @@ HitExtra(3, 2, 0, 0, 0)>>
          [] d = 1 -> <<Hitting(0, 0, 3, 0, 1) @@ HitExtra(0, 0, 1, 0, 1)>>
          [] OTHER -> <<Hitting(1, 1, 4, 4, 0) @@ HitExtra(1, 1, 0, 0, 0)>>]

SamFull ==
    [d \in Days |->
        CASE d = 0 -> <<Hitting(1, 1, 4, 4, 0) @@ HitExtra(1, 1, 2, 1, 0)>>
          [] d = 1 -> <<Hitting(1, 2, 4, 5, 0) @@ HitExtra(2, 2, 0, 0, 0)>>
          [] OTHER -> <<>>]

LynnFull ==
    [d \in Days |->
        IF d % 2 = 0
        THEN <<Pitching(<<"6", ".", "2">>, 2, 5, 0, 4) @@ PitchExtra(1, 0, 0, 1)>>
        ELSE <<>>]

OhtaniFull ==
    [d \in Days |->
        IF d = 1
        THEN <<Pitching(<<"7", ".", "0">>, 0, 9, 1, 3) @@ PitchExtra(0, 1, 1, 0)>>
        ELSE <<>>]

\* A day on which the provider reports more hits than at-bats for Joe Hitter,
\* with total bases within four per at-bat.
JoeAnomaly ==
    [d \in Days |->
        IF d = 0 THEN <<Hitting(0, 2, 1, 2, 0) @@ HitExtra(0, 1, 0, 0, 0)>>
        ELSE JoeFull[d]]

\* A game of Shohei Ohtani reported with 1000 strikeouts and one walk.
OhtaniStrikeouts ==
    [d \in Days |->
        IF d = 1
        THEN <<Pitching(<<"7", ".", "0">>, 0, 1000, 1, 3) @@ PitchExtra(0, 1, 1, 0)>>
        ELSE <<>>]

\* Lance Lynn pitches on both days of the contest: 4 1/3 innings with 5 earned
\* runs, then 4 2/3 innings with 4 earned runs.
LynnNine ==
    [d \in Days |->
        CASE d = 0 -> <<Pitching(<<"4", ".", "1">>, 5, 3, 2, 6) @@ PitchExtra(0, 0, 0, 0)>>
          [] d = 1 -> <<Pitching(<<"4", ".", "2">>, 4, 4, 1, 5) @@ PitchExtra(0, 0, 0, 0)>>
          [] OTHER -> <<>>]

SeasonOf(joe, sam, lynn, ohtani) ==
    [k \in {<<501, "hitting">>, <<502, "hitting">>, <<458681, "pitching">>,
            <<660271, "pitching">>} |->
        CASE k = <<501, "hitting">> -> LogOf(joe, MaxDay)
          [] k = <<502, "hitting">> -> LogOf(sam, MaxDay)
          [] k = <<458681, "pitching">> -> LogOf(lynn, MaxDay)
          [] k = <<660271, "pitching">> -> LogOf(ohtani, MaxDay)]

\* The seasons of SpecAgg.
Seasons ==
    {SeasonOf(JoeFull, SamFull, LynnFull, OhtaniFull),
     SeasonOf(JoeAnomaly, SamFull, LynnFull, OhtaniFull),
     SeasonOf(JoeFull, SamFull, LynnFull, OhtaniStrikeouts),
     SeasonOf(JoeFull, SamFull, LynnNine, OhtaniFull)}

\* League.active_pitcher_slots of the leagues of SpecAgg.
SlotConfigs == {NoSlots, [kind |-> "json", slots |-> <<13, 14>>]}

InitAgg ==
    /\ now = 0
    /\ InitStores
    /\ league_slots \in SlotConfigs
    /\ espn_teams = SeasonTeams
    /\ espn_rosters = SeasonRosters
    /\ mlb_people = SeasonPeople
    /\ mlb_logs \in Seasons

\* A contest over days 0 and 1 in any category, the provider up.
CreateAgg == \E cat \in valid_stats : CreateContest(cat, 0, 1, AttemptEnvs(0, EnvUp))

ReadAgg == GetContestData(EnvUp)

NextAgg == CreateAgg \/ ReadAgg \/ Tick

SpecAgg == InitAgg /\ [][NextAgg]_vars

\* ------------------------------------------------ specification with storage errors
\* The numbers of failing commits of a write: none, one, as many as the retry
\* loops allow, and one more.
StoreFails == {0, 1, max_attempts, max_attempts + 1}

\* The conditions of the requests of SpecStore: the stores of one kind fail, or
\* the team fetch does.
StoreEnvs ==
    {[EnvUp EXCEPT !.idFails = f] : f \in StoreFails}
        \cup {[EnvUp EXCEPT !.logFails = f] : f \in StoreFails}
        \cup {[EnvUp EXCEPT !.snapFails = f] : f \in StoreFails}
        \cup {EnvTeamsDown}

CreateStore ==
    \E cat \in Categories, dates \in ContestDates, env \in StoreEnvs :
        CreateContest(cat, dates[1], dates[2], AttemptEnvs(0, env))

ReadStore == \E env \in StoreEnvs : GetContestData(env)

NextStore == CreateStore \/ ReadStore \/ Tick \/ CorruptSnapshot

SpecStore == Init /\ [][NextStore]_vars

\* ------------------------------------------------------------------- claims
\* The contest of the run, and what the last request returned.
Ct == The(contest)
Value == The(last.value)
Returned == last.outcome = "ok"

\* The teams of the rankings whose value is the first-ranked value, as a set.
TopTeams(rankings) ==
    {rankings[i].team : i \in {j \in 1..Len(rankings) : rankings[j].value = rankings[1].value}}

SeqSet(q) == {q[i] : i \in 1..Len(q)}

\* The status is COMPLETE with every top-valued team as winner.
IsComplete(value) ==
    /\ value.status.is_started
    /\ value.status.is_complete
    /\ IsSome(value.status.winner)
    /\ SeqSet(The(value.status.winner)) = TopTeams(value.rankings)

\* The status is IN_PROGRESS with the days remaining on the day today.
IsInProgress(value, end_date, today) ==
    /\ value.status.is_started
    /\ ~value.status.is_complete
    /\ value.status.days_remaining = Some(end_date - today)
    /\ value.status.winner = None

\* C1 (as claimed): whatever get_contest_data returns on a day after the
\* contest's end date is COMPLETE, with the teams at the top value as winner.
C1_CompleteAfterEnd ==
    (IsSome(contest) /\ last.op = "get" /\ Returned /\ last.today > Ct.end_date)
        => IsComplete(Value)

\* C2 (as claimed): when the aggregation runs on a day from the start date to
\* the end date, the end date included, the status is IN_PROGRESS with
\* days_remaining = end date - today and no winner.
C2_InProgressThroughEnd ==
    (IsSome(contest) /\ Returned /\ last.executed > 0 /\ last.memoHits = 0
        /\ Ct.start_date <= last.today /\ last.today <= Ct.end_date)
        => IsInProgress(Value, Ct.end_date, last.today)

\* C3 (as claimed): every invocation of compute_contest_stats runs the
\* aggregation; none returns the value of an earlier invocation.
C3_EveryCallRecomputes == last.executed = last.calls /\ last.memoHits = 0

\* The stored row is reused: it exists, decodes, and is of today or the
\* contest's end date is before today.
SnapshotUsable ==
    /\ last.had
    /\ last.decoded
    /\ (last.stamp = last.today \/ Ct.end_date < last.today)

C6_NotStarted ==
    (IsSome(contest) /\ last.op = "get" /\ Returned /\ Ct.start_date > last.today)
        => /\ Value.status = NotStartedStatus(Ct.start_date, last.today)
           /\ Value.rankings = <<>>
           /\ last.statCalls = 0
           /\ last.rosterCalls = 0

\* The days the warning of a value names.
WarnedDays(value) == SeqSet(value.warning_message.days)

\* C10 (amended): a failed roster fetch does not abort the computation; the day
\* is in the no-data warning, except a day of the break window in a pitching
\* category (in a hitting category a day of the break window is warned of too).
C10_FailedRosterDay ==
    last.failedDays # {} =>
        /\ Returned
        /\ \A d \in last.failedDays :
            d \in WarnedDays(Value) <=>
                ~(d \in {2, 3, 4, 5} /\ Ct.stat_category \in pitching_categories)

\* C10 (as claimed): ... a failed day of the break window is left out of the
\* warning whatever the category.
C10_BreakDayNeverWarned ==
    last.failedDays # {} =>
        /\ Returned
        /\ \A d \in last.failedDays : d \in WarnedDays(Value) <=> d \notin {2, 3, 4, 5}

\* C10 witness: in a pitching category a failed day of the break window is not
\* warned of, and the computation returned.
C10_Witness ==
    /\ Returned
    /\ Ct.stat_category \in pitching_categories
    /\ \E d \in last.failedDays : d \in {2, 3, 4, 5} /\ d \notin WarnedDays(Value)

\* rankings is in the order of the category: ascending values for the four
\* lower-is-better categories, descending values otherwise.
InOrder(cat, rankings) ==
    \A i \in 1..(Len(rankings) - 1) :
        IF cat \in {"HITS ALLOWED", "ERA", "WALKS ALLOWED", "WHIP"}
        THEN RLeq(rankings[i].value, rankings[i + 1].value)
        ELSE RLeq(rankings[i + 1].value, rankings[i].value)

\* C7: the rankings a request returns are sorted ascending by value in HITS
\* ALLOWED, ERA, WALKS ALLOWED and WHIP and descending in every other category,
\* and in a COMPLETE contest the winner is every team at the first-ranked value
\* and no other team.
C7_SortedAndTiedWinners ==
    (IsSome(contest) /\ Returned) =>
        /\ InOrder(Ct.stat_category, Value.rankings)
        /\ Value.status.is_complete =>
            /\ IsSome(Value.status.winner)
            /\ SeqSet(The(Value.status.winner)) = TopTeams(Value.rankings)

\* C7 witness: a COMPLETE HR contest in which both teams total 2 home runs and
\* both are winners.
C7_Witness ==
    /\ IsSome(contest) /\ Returned
    /\ Ct.stat_category = "HR"
    /\ Value.status.is_complete
    /\ Len(Value.rankings) = 2
    /\ Value.rankings[1].value = RInt(2) /\ Value.rankings[2].value = RInt(2)
    /\ SeqSet(The(Value.status.winner)) = {"A", "B"}

\* The place of a team in the rankings.
RankOf(rankings, team) == CHOOSE k \in 1..Len(rankings) : rankings[k].team = team

\* C8 (as claimed): in a ratio category a team whose accumulated denominator is
\* 0 and numerator is above 0 is ranked strictly above every team with a
\* denominator above 0.
C8_SentinelAboveFinite ==
    (IsSome(contest) /\ Returned /\ Ct.stat_category \in ratio_categories) =>
        \A i, j \in 1..Len(last.team_stats) :
            LET a == last.team_stats[i]
                b == last.team_stats[j]
            IN  (a.data.den = Zero /\ RLess(Zero, a.data.num) /\ RLess(Zero, b.data.den))
                    => /\ RankOf(Value.rankings, a.team) < RankOf(Value.rankings, b.team)
                       /\ Value.rankings[RankOf(Value.rankings, a.team)].value
                              # Value.rankings[RankOf(Value.rankings, b.team)].value

\* C9 (as claimed): in OBP, AVG and SLUGGING PERCENTAGE a player-day whose
\* summed hits exceed its summed at-bats changes no team accumulator.
C9_InvalidHitsContributeNothing ==
    (IsSome(contest) /\ Ct.stat_category \in {"OBP", "AVG", "SLUGGING PERCENTAGE"}) =>
        \A i \in 1..Len(last.audit) :
            RLess(Get(last.audit[i].stats, "atBats"), Get(last.audit[i].stats, "hits"))
                => last.audit[i].after = last.audit[i].before


\* ------------------------------------------- specification of concurrent computations
\* The request state of computation l at a step: the shared stores as they are
\* now and the computation's local variables.
Resume(l) ==
    [Ctx EXCEPT !.ts = l.team_stats, !.ndd = l.no_data_days,
                !.found = l.daily_stats_found]

\* The local variables of computation l after a step that left c.
Suspend(l, c) ==
    [l EXCEPT !.team_stats = c.ts, !.no_data_days = c.ndd,
              !.daily_stats_found = c.found, !.commits = Max(@, c.commits)]

\* The started players of a day in the order of the loops over the teams and
\* their players.
RECURSIVE StartedPlayers(_, _, _, _)
StartedPlayers(cat, team_names, roster_data, aps) ==
    IF roster_data = <<>> THEN <<>>
    ELSE LET t == Head(roster_data)
             started == Started(cat, t.entries, aps)
         IN  [i \in 1..Len(started) |->
                 [team |-> TeamName(team_names, t.id), entry |-> started[i]]]
             \o StartedPlayers(cat, team_names, Tail(roster_data), aps)

\* The step of computation p that leaves the request state c, at the place l
\* of the loops.
Step(p, c, l) ==
    /\ running' = [running EXCEPT ![p] = Suspend(l, c)]
    /\ Commit(c)
    /\ UNCHANGED <<now, contest, results, provider, last>>

\* The body of compute_contest_stats starts: team names, team_stats.  A team
\* fetch that fails raises ValueError, which ends the request.
Begun(p, t, ct) ==
    Step(p, [t.c EXCEPT !.ts = InitTeamStats(ct.stat_category, t.names)],
         IF t.raised THEN [running[p] EXCEPT !.phase = "raised"]
         ELSE [running[p] EXCEPT !.phase = "chunk", !.current = ct.start_date,
                                 !.team_names = t.names])

ParBegin(p, env) ==
    /\ running[p].phase = "idle"
    /\ IsSome(contest)
    /\ The(contest).stat_category \in valid_stats
    /\ The(contest).start_date <= Today
    /\ Begun(p, get_team_names(Ctx, env), The(contest))

\* After the rosters r of a chunk are fetched the loop over its days starts.
ChunkFetched(p, r, l, chunk_end) ==
    Step(p, [r.c EXCEPT !.ts = l.team_stats, !.ndd = l.no_data_days],
         [l EXCEPT !.phase = "day", !.chunk_end = chunk_end, !.chunk_date = l.current,
                   !.rosters = r.rosters])

\* The head of the loop over the chunks: the next chunk's rosters are fetched,
\* or after the last chunk the rankings are computed and returned.
ParChunk(p, env) ==
    LET l == running[p]
        ct == The(contest)
        effective_end == Min(ct.end_date, Today)
    IN  /\ l.phase = "chunk"
        /\ IF l.current > effective_end
           THEN Step(p, Resume(l),
                     [l EXCEPT !.phase = "done",
                               !.value = Finish(Resume(l), ct, Today).value])
           ELSE ChunkFetched(p,
                    get_team_rosters(Ctx, env, l.current,
                                     Min(l.current + (chunk_size - 1), effective_end)),
                    l, Min(l.current + (chunk_size - 1), effective_end))

\* The head of the loop over the days of a chunk: processed_players is cleared,
\* a day without roster data is skipped.
ParDay(p) ==
    LET l == running[p]
        cat == The(contest).stat_category
        roster_data == IF l.chunk_date \in DOMAIN l.rosters
                       THEN l.rosters[l.chunk_date] ELSE <<>>
    IN  /\ l.phase = "day"
        /\ IF l.chunk_date > l.chunk_end
           THEN Step(p, Resume(l),
                     [l EXCEPT !.phase = "chunk", !.current = l.chunk_end + 1])
           ELSE IF roster_data = <<>>
           THEN Step(p, [Resume(l) EXCEPT
                            !.seen = {},
                            !.ndd = IF NoRosterIsNoData(cat, l.chunk_date)
                                    THEN Append(@, l.chunk_date) ELSE @],
                     [l EXCEPT !.chunk_date = @ + 1])
           ELSE Step(p, [Resume(l) EXCEPT !.seen = {}, !.found = FALSE],
                     [l EXCEPT !.phase = "player",
                               !.pending = StartedPlayers(cat, l.team_names, roster_data,
                                               ActivePitcherSlots(league_slots))])

\* One iteration of the loop over the started players of a day.
ParPlayer(p, env) ==
    LET l == running[p]
    IN  /\ l.phase = "player"
        /\ l.pending # <<>>
        /\ Step(p,
                ProcessPlayer(Resume(l), env, The(contest).stat_category,
                              l.chunk_date, Head(l.pending).team, Head(l.pending).entry,
                              ActivePitcherSlots(league_slots)),
                [l EXCEPT !.pending = Tail(@)])

\* The end of a day.
ParCloseDay(p) ==
    LET l == running[p]
    IN  /\ l.phase = "player"
        /\ l.pending = <<>>
        /\ Step(p, CloseDay(Resume(l), The(contest).stat_category, l.chunk_date),
                [l EXCEPT !.phase = "day", !.chunk_date = @ + 1])

\* A contest over days 0 and 1 without a result yet, read by two requests
\* after its end.
InitPar ==
    /\ now = (MaxDay + 1) * TicksPerDay - 1
    /\ contest \in {Some([stat_category |-> cat, start_date |-> 0, end_date |-> 1]) :
                       cat \in Categories}
    /\ results = <<>>
    /\ InitCaches
    /\ last = NoRequest
    /\ league_slots = NoSlots
    /\ espn_teams = SeasonTeams
    /\ espn_rosters = SeasonRosters
    /\ mlb_people = SeasonPeople
    /\ mlb_logs = SeasonLogs

NextPar ==
    \E p \in Computations :
        \/ ParBegin(p, EnvUp)
        \/ ParChunk(p, EnvUp)
        \/ ParDay(p)
        \/ ParPlayer(p, EnvUp)
        \/ ParCloseDay(p)

SpecPar == InitPar /\ [][NextPar]_vars

\* ------------------------------------------------ specification of one call's loops
\* The request whose loops are followed step by step.
Callers == {1}

\* The provider and storage conditions of a step: all up, or one kind of
\* request or of commit failing for every player and day.
LoopEnvs ==
    {EnvUp, EnvTeamsDown,
     [EnvUp EXCEPT !.rosterDown = Days],
     [EnvUp EXCEPT !.searchDown = {1001, 1002, 30820, 39832}],
     [EnvUp EXCEPT !.logDown = {1001, 1002, 30820, 39832}],
     [EnvUp EXCEPT !.idFails = max_attempts],
     [EnvUp EXCEPT !.logFails = max_attempts]}

\* The OperationalError of a query whose attempts are not counted: the body
\* starts again every time.
LoopFaultUncounted(p) ==
    LET l == running[p]
    IN  /\ l.phase \in {"chunk", "day", "player"}
        /\ running' = [running EXCEPT ![p] =
                           [NotRunning EXCEPT !.attempts = l.attempts,
                                              !.body_attempts = l.body_attempts,
                                              !.commits = l.commits]]
        /\ UNCHANGED <<now, contest, results, memo, caches, provider, last>>

\* A query inside the body of compute_contest_stats raises OperationalError:
\* the loop `while attempts < max_attempts` starts the body again, and after
\* the max_attempts-th failure ValueError ends the request.
LoopFault(p) ==
    LET l == running[p]
    IN  /\ l.phase \in {"chunk", "day", "player"}
        /\ running' = [running EXCEPT ![p] =
                           IF l.body_attempts + 1 < max_attempts
                           THEN [NotRunning EXCEPT !.attempts = l.attempts,
                                    !.body_attempts = l.body_attempts + 1,
                                    !.commits = l.commits]
                           ELSE [l EXCEPT !.phase = "raised",
                                          !.body_attempts = @ + 1]]
        /\ UNCHANGED <<now, contest, results, memo, caches, provider, last>>

\* get_contest_data commits the row of the computed value and returns; a
\* commit that raises OperationalError is counted and the loop of
\* get_contest_data runs again (compute_contest_stats then answers from its
\* memo), until the max_attempts-th failure raises ValueError.
LoopSave(p, ok) ==
    LET l == running[p]
    IN  /\ l.phase = "done"
        /\ IF ok
           THEN /\ results' = Append(results, NewResult(The(l.value)))
                /\ running' = [running EXCEPT ![p].phase = "returned"]
           ELSE /\ UNCHANGED results
                /\ running' = [running EXCEPT ![p] =
                                  [l EXCEPT !.attempts = @ + 1,
                                            !.phase = IF l.attempts + 1 < max_attempts
                                                      THEN "done" ELSE "raised"]]
        /\ UNCHANGED <<now, contest, memo, caches, provider, last>>

\* A started contest without a result yet, requested on a day before or after
\* its end.
InitLoops ==
    /\ now \in {TicksPerDay, (MaxDay + 1) * TicksPerDay - 1}
    /\ contest \in {Some([stat_category |-> cat, start_date |-> 0, end_date |-> e]) :
                       cat \in Categories, e \in {1, MaxDay}}
    /\ results = <<>>
    /\ InitCaches
    /\ last = NoRequest
    /\ league_slots = NoSlots
    /\ espn_teams = SeasonTeams
    /\ espn_rosters = SeasonRosters
    /\ mlb_people = SeasonPeople
    /\ mlb_logs = SeasonLogs

NextLoops ==
    \E p \in Callers :
        \/ LoopFault(p)
        \/ \E ok \in BOOLEAN : LoopSave(p, ok)
        \/ ParDay(p)
        \/ ParCloseDay(p)
        \/ \E env \in LoopEnvs :
               ParBegin(p, env) \/ ParChunk(p, env) \/ ParPlayer(p, env)

SpecLoops == InitLoops /\ [][NextLoops]_vars

\* The thread of the request keeps running.
FairLoops == SpecLoops /\ WF_vars(NextLoops)


\* ------------------------------------------------------ specification of parse_ip
\* The characters of the inningsPitched texts: digits, the point, a sign and a
\* letter.
IpChars == {"6", "2", ".", "-", "x"}

\* The texts parse_ip is applied to.
IpTexts == UNION {[1..n -> IpChars] : n \in 0..MaxIpLen}

InitParse ==
    /\ now = 0
    /\ contest = None
    /\ results = <<>>
    /\ InitCaches
    /\ last \in {[op |-> "input", ip |-> ip] : ip \in IpTexts}
    /\ league_slots = NoSlots
    /\ espn_teams = SeasonTeams
    /\ espn_rosters = SeasonRosters
    /\ mlb_people = SeasonPeople
    /\ mlb_logs = SeasonLogs

\* parse_ip is applied to the text.
ParseIp ==
    /\ last.op = "input"
    /\ last' = [op |-> "parse_ip", ip |-> last.ip, parsed |-> parse_ip(last.ip)]
    /\ UNCHANGED <<now, contest, results, memo, caches, provider, running>>

SpecParse == InitParse /\ [][ParseIp]_vars

\* ------------------------------------------ specification of interleaved requests
\* Request p has computed r: an exception is to be raised, a value is made a
\* new ContestResult row (last_updated is taken then) that is still to commit.
RowMade(p, r) ==
    /\ running' = [running EXCEPT ![p] =
                       IF r.raised THEN [NotRunning EXCEPT !.phase = "raise"]
                       ELSE [NotRunning EXCEPT !.phase = "commit",
                                !.value = Some(NewResult(The(r.value)))]]
    /\ Commit(r.c)

\* get_contest_data of request p up to its commit: the query of the latest row
\* and needs_update; a row that is reused is decoded, otherwise the result is
\* computed and its row made.
ReadQuery(p, env) ==
    /\ running[p].phase = "idle"
    /\ IsSome(contest)
    /\ IF ~NeedsUpdate(The(contest)) /\ Latest(results).decodes
       THEN /\ running' = [running EXCEPT ![p] =
                              [NotRunning EXCEPT !.phase = "reuse",
                                                 !.value = Some(Latest(results))]]
            /\ UNCHANGED <<memo, caches>>
       ELSE RowMade(p, compute_contest_stats(Ctx, env, The(contest)))
    /\ UNCHANGED <<now, contest, results, provider, last>>

\* db.session.add(new_result); db.session.commit() of request p.
ReadCommit(p) ==
    /\ running[p].phase = "commit"
    /\ results' = Append(results, The(running[p].value))
    /\ running' = [running EXCEPT ![p].phase = "return"]
    /\ UNCHANGED <<now, contest, memo, caches, provider, last>>

\* Request p returns what it decoded or computed, or raises.
ReadReturn(p) ==
    /\ running[p].phase \in {"reuse", "return", "raise"}
    /\ last' = [NoRequest EXCEPT
                   !.op = "get", !.today = Today,
                   !.outcome = IF running[p].phase = "raise" THEN "raise" ELSE "ok",
                   !.value = IF running[p].phase = "raise" THEN None
                             ELSE Some(Stored(The(running[p].value))),
                   !.reused = running[p].phase = "reuse",
                   !.had = results # <<>>, !.after = Len(results)]
    /\ running' = [running EXCEPT ![p] = NotRunning]
    /\ UNCHANGED <<now, contest, results, memo, caches, provider>>

\* A contest over all days of the calendar, without a result yet.
InitReads ==
    /\ now = 0
    /\ contest \in {Some([stat_category |-> cat, start_date |-> 0,
                          end_date |-> MaxDay]) : cat \in Categories}
    /\ results = <<>>
    /\ InitCaches
    /\ last = NoRequest
    /\ league_slots = NoSlots
    /\ espn_teams = SeasonTeams
    /\ espn_rosters = SeasonRosters
    /\ mlb_people = SeasonPeople
    /\ mlb_logs = SeasonLogs

NextReads ==
    \/ \E p \in Computations :
           \/ \E env \in {EnvUp, EnvTeamsDown} : ReadQuery(p, env)
           \/ ReadCommit(p)
           \/ ReadReturn(p)
    \/ Tick

SpecReads == InitReads /\ [][NextReads]_vars

\* ------------------------------------- specification of the test of the category
\* The categories a Contest row may hold: those of the form, the same in lower
\* case, and names that are no category.
StoredCategories == Categories \cup {"hr", "era", "XYZ", "xyz", ""}

\* A Contest row of any category, without a result yet.
InitCategory ==
    /\ now = 0
    /\ contest \in {Some([stat_category |-> cat, start_date |-> dates[1],
                          end_date |-> dates[2]]) :
                       cat \in StoredCategories, dates \in ContestDates}
    /\ results = <<>>
    /\ InitCaches
    /\ last = NoRequest
    /\ league_slots = NoSlots
    /\ espn_teams = SeasonTeams
    /\ espn_rosters = SeasonRosters
    /\ mlb_people = SeasonPeople
    /\ mlb_logs = SeasonLogs

NextCategory == Read \/ Tick

SpecCategory == InitCategory /\ [][NextCategory]_vars

\* ------------------------------------------------- specification of the leagues
\* The name search of the leagues: Pat Pitcher is found, J. Hitter is Joe
\* Hitter under another ESPN id, Nobody has no match.
LeaguePeople ==
    [name \in {"Joe Hitter", "J. Hitter", "Sam Batter", "Pat Pitcher", "Nobody"} |->
        CASE name \in {"Joe Hitter", "J. Hitter"} -> <<501>>
          [] name = "Sam Batter" -> <<502>>
          [] name = "Pat Pitcher" -> <<503>>
          [] OTHER -> <<>>]

\* Pat Pitcher pitches 5 innings with one earned run on day 0.
PatGames ==
    [d \in Days |->
        IF d = 0 THEN <<Pitching(<<"5", ".", "0">>, 1, 4, 1, 3)>> ELSE <<>>]

\* The game logs of the leagues: those of the season and Pat Pitcher's.
LeagueLogs ==
    [k \in DOMAIN SeasonLogs \cup {<<503, "pitching">>} |->
        IF k \in DOMAIN SeasonLogs THEN SeasonLogs[k] ELSE LogOf(PatGames, MaxDay)]

\* The lineups of the leagues, the same every day except in the last: a
\* pitcher whose id the name search resolves; a player entered twice, under two
\* ESPN ids and on both teams; a player without a match; entries at the limits
\* of the hitting and pitching slots and an entry without a player name; a
\* player who changes team after day 0.
Lineups ==
    {SeasonRosters,
     [d \in Days |->
        <<[id |-> 1, entries |-> <<Entry(1001, "Joe Hitter", 5),
                                   Entry(1003, "Pat Pitcher", 13)>>],
          [id |-> 2, entries |-> <<Entry(1002, "Sam Batter", 3),
                                   Entry(39832, "Shohei Ohtani", 14)>>]>>],
     [d \in Days |->
        <<[id |-> 1, entries |-> <<Entry(1001, "Joe Hitter", 5),
                                   Entry(1009, "J. Hitter", 6)>>],
          [id |-> 2, entries |-> <<Entry(1001, "Joe Hitter", 4),
                                   Entry(1002, "Sam Batter", 3)>>]>>],
     [d \in Days |->
        <<[id |-> 1, entries |-> <<Entry(1004, "Nobody", 2),
                                   Entry(1001, "Joe Hitter", 5)>>],
          [id |-> 2, entries |-> <<Entry(1002, "Sam Batter", 3)>>]>>],
     [d \in Days |->
        <<[id |-> 1, entries |-> <<Entry(1001, "Joe Hitter", 12),
                                   Entry(30820, "Lance Lynn", 15),
                                   Entry(1010, "", 7)>>],
          [id |-> 2, entries |-> <<Entry(1002, "Sam Batter", 13),
                                   Entry(39832, "Shohei Ohtani", 16)>>]>>],
     [d \in Days |->
        IF d = 0
        THEN <<[id |-> 1, entries |-> <<Entry(1001, "Joe Hitter", 5)>>],
               [id |-> 2, entries |-> <<Entry(1002, "Sam Batter", 3)>>]>>
        ELSE <<[id |-> 1, entries |-> <<>>],
               [id |-> 2, entries |-> <<Entry(1002, "Sam Batter", 3),
                                        Entry(1001, "Joe Hitter", 4)>>]>>]}

\* The teams of the leagues: two names, one name twice, a third team that has
\* no lineup.
LeagueTeams ==
    {SeasonTeams,
     <<[id |-> 1, name |-> "A"], [id |-> 2, name |-> "A"]>>,
     <<[id |-> 1, name |-> "A"], [id |-> 2, name |-> "B"], [id |-> 3, name |-> "C"]>>}

\* League.active_pitcher_slots of the leagues: no text, slots of the range,
\* slots outside it, both, an empty list, text that is no JSON.
LeagueSlots ==
    {NoSlots, [kind |-> "json", slots |-> <<13, 14>>],
     [kind |-> "json", slots |-> <<14>>],
     [kind |-> "json", slots |-> <<16, 12>>],
     [kind |-> "json", slots |-> <<15, 16>>],
     [kind |-> "json", slots |-> <<>>],
     [kind |-> "invalid", slots |-> <<>>]}

\* A league with its own lineups, or with its own teams or slots.
InitLeague ==
    /\ now = 0
    /\ InitStores
    /\ mlb_people = LeaguePeople
    /\ mlb_logs = LeagueLogs
    /\ \/ /\ espn_rosters \in Lineups
          /\ espn_teams = SeasonTeams
          /\ league_slots = NoSlots
       \/ /\ espn_rosters = SeasonRosters
          /\ espn_teams \in LeagueTeams
          /\ league_slots \in LeagueSlots

\* The provider conditions of the requests of SpecLeague.
LeagueEnvs ==
    {EnvUp, [EnvUp EXCEPT !.searchDown = {1001, 1004}],
     [EnvUp EXCEPT !.logDown = {1001}]}

\* A contest over days 0 and 1 in a hitting and in a pitching category.
CreateLeague ==
    \E cat \in Categories, env \in LeagueEnvs :
        CreateContest(cat, 0, 1, AttemptEnvs(0, env))

ReadLeague == \E env \in LeagueEnvs : GetContestData(env)

NextLeague == CreateLeague \/ ReadLeague \/ Tick

SpecLeague == InitLeague /\ [][NextLeague]_vars

\* ------------------------------------ specification of concurrent resolutions
\* A thread that is not in get_mlb_id.  Of one that is: the roster entry, the
\* id the search found, whether the query of the store found a row, and the
\* commits that failed.
NotResolving ==
    [phase |-> "idle", entry |-> Entry(0, "", 0), mlb_id |-> None, row |-> FALSE,
     attempts |-> 0]

\* The roster entries whose identity is resolved.
Unresolved ==
    {Entry(1001, "Joe Hitter", 5), Entry(1003, "Pat Pitcher", 13),
     Entry(1004, "Nobody", 2)}

\* get_mlb_id up to the name search: a manual mapping or a PlayerCache row
\* with an id is returned at once.
IdLookup(p, entry) ==
    /\ running[p].phase = "idle"
    /\ running' = [running EXCEPT ![p] =
           IF entry.playerId \in DOMAIN manual_mlb_mappings
           THEN [NotResolving EXCEPT !.phase = "returned", !.entry = entry,
                    !.mlb_id = Some(manual_mlb_mappings[entry.playerId])]
           ELSE IF entry.playerId \in DOMAIN player_cache
                   /\ IsSome(player_cache[entry.playerId].mlb_id)
           THEN [NotResolving EXCEPT !.phase = "returned", !.entry = entry,
                    !.mlb_id = player_cache[entry.playerId].mlb_id]
           ELSE [NotResolving EXCEPT !.phase = "search", !.entry = entry]]
    /\ UNCHANGED <<now, contest, results, memo, caches, provider, last>>

\* The name search: a failed request and a search without a match return None.
IdSearch(p, up) ==
    LET l == running[p]
        people == IF l.entry.fullName \in DOMAIN mlb_people
                  THEN mlb_people[l.entry.fullName] ELSE <<>>
    IN  /\ l.phase = "search"
        /\ running' = [running EXCEPT ![p] =
               IF ~up \/ people = <<>> THEN [l EXCEPT !.phase = "returned"]
               ELSE [l EXCEPT !.phase = "store", !.mlb_id = Some(people[1])]]
        /\ UNCHANGED <<now, contest, results, memo, caches, provider, last>>

\* The head of the store loop and its query of the player's row; after
\* max_attempts failed commits the id is returned unstored.
IdQuery(p) ==
    LET l == running[p]
    IN  /\ l.phase = "store"
        /\ running' = [running EXCEPT ![p] =
               IF l.attempts >= max_attempts THEN [l EXCEPT !.phase = "returned"]
               ELSE [l EXCEPT !.phase = "commit",
                              !.row = l.entry.playerId \in DOMAIN player_cache]]
        /\ UNCHANGED <<now, contest, results, memo, caches, provider, last>>

\* The commit of the row: an update of the row the query found, or the insert
\* of a new row, which raises IntegrityError when a row of the player has been
\* inserted since (espn_id is unique); OperationalError (~ok) is counted and the
\* loop runs again.
IdCommit(p, ok) ==
    LET l == running[p]
        id == l.entry.playerId
    IN  /\ l.phase = "commit"
        /\ IF ~ok
           THEN /\ running' = [running EXCEPT ![p] =
                       [l EXCEPT !.phase = "store", !.attempts = @ + 1]]
                /\ UNCHANGED player_cache
           ELSE IF ~l.row /\ id \in DOMAIN player_cache
           THEN /\ running' = [running EXCEPT ![p].phase = "raised"]
                /\ UNCHANGED player_cache
           ELSE /\ running' = [running EXCEPT ![p].phase = "returned"]
                /\ player_cache' =
                       IF id \in DOMAIN player_cache
                       THEN [player_cache EXCEPT ![id].mlb_id = l.mlb_id]
                       ELSE Put(player_cache, id,
                                [mlb_id |-> l.mlb_id, group |-> "hitting",
                                 game_log |-> None])
        /\ UNCHANGED <<now, contest, results, memo, team_names_cache, roster_cache,
                       mlb_id_cache, game_log_cache, processed_players, provider, last>>

InitIdentity ==
    /\ now = 0
    /\ contest = None
    /\ results = <<>>
    /\ memo = None
    /\ team_names_cache = None
    /\ roster_cache = EmptyMap
    /\ mlb_id_cache = EmptyMap
    /\ game_log_cache = EmptyMap
    /\ player_cache = EmptyMap
    /\ processed_players = {}
    /\ running = [p \in Computations |-> NotResolving]
    /\ last = NoRequest
    /\ league_slots = NoSlots
    /\ espn_teams = SeasonTeams
    /\ espn_rosters = SeasonRosters
    /\ mlb_people = LeaguePeople
    /\ mlb_logs = LeagueLogs

NextIdentity ==
    \E p \in Computations :
        \/ \E entry \in Unresolved : IdLookup(p, entry)
        \/ \E up \in BOOLEAN : IdSearch(p, up)
        \/ IdQuery(p)
        \/ \E ok \in BOOLEAN : IdCommit(p, ok)

SpecIdentity == InitIdentity /\ [][NextIdentity]_vars

\* ------------------------------------------ specification of the weekly chunks
\* The last day of the calendar of the contests of SpecChunks: contests of up
\* to 16 days, three chunks.
LastDay == 15

LongDays == 0..LastDay

\* The lineups of the season on the longer calendar.
LongRosters == [d \in LongDays |-> SeasonRosters[d % (MaxDay + 1)]]

\* The provider conditions of SpecChunks: the roster requests of two days fail.
ChunkEnvs == {EnvUp, [EnvUp EXCEPT !.rosterDown = {1, 8}]}

\* A new process on any day of the calendar.
InitChunks ==
    /\ now \in {d * TicksPerDay : d \in LongDays}
    /\ InitStores
    /\ league_slots = NoSlots
    /\ espn_teams = SeasonTeams
    /\ espn_rosters = LongRosters
    /\ mlb_people = SeasonPeople
    /\ mlb_logs = SeasonLogs

CreateChunks ==
    \E start_date, end_date \in LongDays, env \in ChunkEnvs :
        CreateContest("HR", start_date, end_date, AttemptEnvs(0, env))

ReadChunks == \E env \in ChunkEnvs : GetContestData(env)

NextChunks == CreateChunks \/ ReadChunks

SpecChunks == InitChunks /\ [][NextChunks]_vars

AloneRankings ==
    The(ComputeBody([Ctx EXCEPT !.tnc = None, !.rc = EmptyMap, !.idc = EmptyMap,
                                !.glc = EmptyMap, !.db = EmptyMap, !.seen = {}],
                    EnvUp, The(contest)).value).rankings

\* C12: of two computations of the contest that run concurrently, interleaved
\* at their per-day and per-player steps, each returns exactly the rankings it
\* returns when run alone.
C12_ConcurrentAsAlone ==
    \A p \in Computations :
        running[p].phase = "done" =>
            /\ IsSome(running[p].value)
            /\ The(running[p].value).rankings = AloneRankings

\* ------------------------------------------------------------------------ C13
\* C13: a get_contest_data in which the fetch of the league's teams failed
\* raises, returns no rankings and leaves the stored snapshots as they were.
C13_TeamFetchFailureIsFatal ==
    (last.op = "get" /\ last.teamFails > 0) =>
        /\ last.outcome = "raise"
        /\ last.value = None
        /\ last.after = last.before
        /\ Len(results) = last.after

\* A read of a contest with a stored snapshot in which the team fetch failed.
C13_Witness ==
    /\ last.op = "get"
    /\ last.teamFails > 0
    /\ last.before > 0
    /\ last.outcome = "raise"

\* ------------------------------------------------------------------------ C14
\* The request decoded the latest stored row, which is of today or of a
\* contest that is over, and the decoding failed.
DecodeFailed ==
    /\ last.op = "get" /\ last.had /\ ~last.decoded
    /\ (last.stamp = last.today \/ Ct.end_date < last.today)

\* C14: a get_contest_data that finds the latest stored row not to decode
\* does not raise: it runs the aggregation, appends the fresh result as a new
\* row and returns it; and a read that reuses a stored row returns the latest.
C14_DecodeFailureRecomputes ==
    /\ DecodeFailed =>
           /\ last.outcome = "ok"
           /\ ~last.reused
           /\ last.executed > 0
           /\ last.after = last.before + 1
           /\ Len(results) = last.after
           /\ last.value = Some(Stored(results[Len(results)]))
    /\ (last.op = "get" /\ last.reused) =>
           /\ Len(results) = last.after
           /\ last.value = Some(Stored(results[Len(results)]))

\* ------------------------------------------------------------------------ C15
\* The provider conditions of a recomputation: those of Spec, a failing name
\* search and a failing game-log request.
SameInputs ==
    Envs \cup {[EnvUp EXCEPT !.searchDown = {1001}],
               [EnvUp EXCEPT !.logDown = {1002, 30820}]}

\* The request state c with the in-process caches empty, as after a restart;
\* the PlayerCache table stays.
ColdCaches(c) ==
    [c EXCEPT !.tnc = None, !.rc = EmptyMap, !.idc = EmptyMap, !.glc = EmptyMap,
              !.seen = {}, !.raised = FALSE]

\* Two runs raise both, or return the same rankings and the same chart series.
SameSeries(a, b) ==
    /\ a.raised = b.raised
    /\ ~a.raised =>
           /\ The(a.value).rankings = The(b.value).rankings
           /\ The(a.value).chart_data = The(b.value).chart_data

\* The run first and a second run served from the caches the first left.
AgainWarm(first, env, ct) ==
    SameSeries(first, ComputeBody([first.c EXCEPT !.raised = FALSE], env, ct))

\* The run first and a second run that finds the in-process caches empty.
AgainCold(first, env, ct) ==
    SameSeries(first, ComputeBody(ColdCaches(first.c), env, ct))

Numerator(cat, stats) ==
    CASE cat = "OBP" -> RAdd(RAdd(Get(stats, "hits"), Get(stats, "baseOnBalls")),
                             Get(stats, "hitByPitch"))
      [] cat = "AVG" -> Get(stats, "hits")
      [] cat = "SLUGGING PERCENTAGE" -> Get(stats, "totalBases")
      [] cat = "ERA" -> RMul(RInt(9), Get(stats, "earnedRuns"))
      [] cat = "WHIP" -> RAdd(Get(stats, "hits"), Get(stats, "baseOnBalls"))
      [] cat = "K/BB" -> Get(stats, "strikeOuts")

Denominator(cat, stats) ==
    CASE cat = "OBP" -> PlateAppearances(stats)
      [] cat = "AVG" -> Get(stats, "atBats")
      [] cat = "SLUGGING PERCENTAGE" -> Get(stats, "atBats")
      [] cat = "ERA" -> Get(stats, "inningsPitched")
      [] cat = "WHIP" -> Get(stats, "inningsPitched")
      [] cat = "K/BB" -> Get(stats, "baseOnBalls")

\* The sums of the numerators and of the denominators of the accepted
\* player-days of a team, those that changed its accumulator, among the first
\* i player-days of the last computation.
RECURSIVE SumAccepted(_, _, _)
SumAccepted(cat, team, i) ==
    IF i = 0 THEN [num |-> Zero, den |-> Zero]
    ELSE LET rest == SumAccepted(cat, team, i - 1)
             e == last.audit[i]
         IN  IF e.team = team /\ e.after # e.before
             THEN [num |-> RAdd(rest.num, Numerator(cat, e.stats)),
                   den |-> RAdd(rest.den, Denominator(cat, e.stats))]
             ELSE rest

\* C16: in a ratio category the value of a team is the sum of the numerators
\* of its accepted player-days divided by the sum of their denominators (in
\* ERA 9 times the earned runs over the innings), and 0 when both sums are 0.
C16_RatioOfSums ==
    (IsSome(contest) /\ Returned /\ last.executed > 0
        /\ Ct.stat_category \in ratio_categories) =>
        \A k \in 1..Len(Value.rankings) :
            LET sums == SumAccepted(Ct.stat_category, Value.rankings[k].team,
                                    Len(last.audit))
            IN  /\ RLess(Zero, sums.den) =>
                       Value.rankings[k].value = RDiv(sums.num, sums.den)
                /\ (sums.num = Zero /\ sums.den = Zero) =>
                       Value.rankings[k].value = Zero

\* An ERA contest in which a team's pitchers gave up 9 earned runs in 9
\* innings over two player-days, and its value is 9.
C16_Witness ==
    /\ IsSome(contest) /\ Returned /\ last.executed > 0
    /\ Ct.stat_category = "ERA"
    /\ \E k \in 1..Len(Value.rankings) :
           /\ SumAccepted("ERA", Value.rankings[k].team, Len(last.audit))
                  = [num |-> RInt(81), den |-> RInt(9)]
           /\ Cardinality({i \in 1..Len(last.audit) :
                              last.audit[i].team = Value.rankings[k].team}) = 2
           /\ Value.rankings[k].value = RInt(9)

\* ------------------------------------------------------------------------ C17
\* A text W.F: the whole innings W a number, the thirds F written in digits.
IsInnings(ip) ==
    /\ Cardinality(Positions(ip, ".")) = 1
    /\ LET p == CHOOSE i \in Positions(ip, ".") : TRUE
       IN  /\ p < Len(ip)
           /\ IsSome(Float(SubSeq(ip, 1, p - 1)))
           /\ AllDigits(SubSeq(ip, p + 1, Len(ip)))

\* W + F/3 of a text W.F.
InningsValue(ip) ==
    LET p == CHOOSE i \in Positions(ip, ".") : TRUE
    IN  RAdd(The(Float(SubSeq(ip, 1, p - 1))),
             Rat(DigitsVal(SubSeq(ip, p + 1, Len(ip))), 3))

\* C17: parse_ip maps a text W.F to W + F/3, a text without a point that is a
\* number to that number, and every other text to 0.
C17_ParseInnings ==
    last.op = "parse_ip" =>
        IF IsInnings(last.ip) THEN last.parsed = InningsValue(last.ip)
        ELSE IF Positions(last.ip, ".") = {} /\ IsSome(Float(last.ip))
        THEN last.parsed = The(Float(last.ip))
        ELSE last.parsed = Zero

\* ------------------------------------------------------------------------ C18
\* C18, first half: no step of a request changes or removes a stored
\* ContestResult row; the table only grows at its end.
AppendOnly ==
    /\ Len(results') >= Len(results)
    /\ SubSeq(results', 1, Len(results)) = results

\* C18, second half: a request that reuses a stored row takes a row whose
\* last_updated is the greatest of the table, whatever the order in which
\* interleaved requests committed their rows.
ReadsGreatest ==
    \A p \in Computations :
        (running[p].phase = "idle" /\ running'[p].phase = "reuse") =>
            \E i \in 1..Len(results) :
                /\ running'[p].value = Some(results[i])
                /\ \A j \in 1..Len(results) :
                       results[j].last_updated <= results[i].last_updated

\* C18: get_contest_data only appends ContestResult rows, and every read of
\* a stored row returns one with the greatest last_updated, also after two
\* interleaved requests for the same stale contest have each stored a row.
C18_AppendOnlyLatestRead == [][AppendOnly /\ ReadsGreatest]_vars

\* Two requests made their rows at different times and committed them in the
\* other order, and a later request has read the row made last.
C18_Witness ==
    \E p \in Computations :
        /\ running[p].phase = "reuse"
        /\ \E i, j \in 1..Len(results) :
               /\ i < j
               /\ results[j].last_updated < results[i].last_updated
               /\ DateOf(results[j].last_updated) = DateOf(results[i].last_updated)
               /\ running[p].value = Some(results[i])

\* ------------------------------------------------------------------------ C19
\* The contest's category is none of valid_stats, whatever its case.
Unsupported ==
    \A cat \in valid_stats : upper(Ct.stat_category) # cat

\* C19: a request for a contest whose category is not supported raises, and
\* it has called neither the roster provider nor the statistics provider,
\* written no cache and no PlayerCache row, memoised nothing and stored no
\* ContestResult.
C19_UnsupportedCategoryRejected ==
    Unsupported =>
        /\ results = <<>>
        /\ memo = None
        /\ team_names_cache = None
        /\ roster_cache = EmptyMap
        /\ mlb_id_cache = EmptyMap
        /\ game_log_cache = EmptyMap
        /\ player_cache = EmptyMap
        /\ last.op = "get" =>
               /\ last.outcome = "raise"
               /\ last.teamCalls = 0
               /\ last.rosterCalls = 0
               /\ last.statCalls = 0
               /\ last.commits = 0

\* A contest of an unsupported category has been requested when the roster
\* provider was up, and the body of compute_contest_stats has run.
C19_Witness ==
    /\ Unsupported
    /\ last.op = "get"
    /\ last.executed > 0
    /\ last.teamFails = 0
    /\ Ct.start_date <= last.today

\* ------------------------------------------------------------------------ C20
\* The call has returned a result or raised.
Finished(p) == running[p].phase \in {"returned", "raised"}

\* Every iteration of the loop over the days ends with the next day, and the
\* players of a day are processed for a day up to min(end_date, today).
DayAdvances ==
    \A p \in Callers :
        LET l == running[p]
            next == running'[p]
        IN  /\ (l.phase \in {"day", "player"} /\ next.phase = "day") =>
                   next.chunk_date = l.chunk_date + 1
            /\ next.phase = "player" =>
                   /\ l.phase \in {"day", "player"}
                   /\ next.chunk_date = l.chunk_date
                   /\ next.chunk_date <= Min(Ct.end_date, Today)

\* No retry loop has made more than max_attempts attempts.
AttemptsBounded ==
    \A p \in Callers :
        /\ running[p].attempts <= max_attempts
        /\ running[p].body_attempts <= max_attempts
        /\ running[p].commits <= max_attempts

\* C20: under any pattern of provider and storage failures a call returns a
\* result or raises; its loop over the days advances by one day per iteration
\* up to min(end_date, today), and no retry loop makes more than max_attempts
\* attempts.
C20_CallsTerminate ==
    /\ \A p \in Callers : <>Finished(p)
    /\ [][DayAdvances]_vars
    /\ []AttemptsBounded

\* A call has returned after every retry loop failed as often as it may:
\* two bodies and two snapshot commits failed, a cache row was given up.
C20_Witness ==
    \E p \in Callers :
        /\ running[p].phase = "returned"
        /\ running[p].attempts = max_attempts - 1
        /\ running[p].body_attempts = max_attempts - 1
        /\ running[p].commits = max_attempts
        /\ running[p].no_data_days # <<>>

\* ------------------------------------------------------------------------ C21
\* The started entries of the contest's category in the lineup of a day.
StartedOn(d) ==
    {e \in UNION {{espn_rosters[d][t].entries[i] :
                      i \in 1..Len(espn_rosters[d][t].entries)} :
                  t \in 1..Len(espn_rosters[d])} :
        IsStarted(Ct.stat_category, e, ActivePitcherSlots(league_slots))}

\* The request computed a started contest, its team fetch did not fail and
\* its snapshot write was not given up.
Computed ==
    /\ last.op \in {"create", "get"}
    /\ last.executed > 0
    /\ Ct.start_date <= last.today
    /\ last.teamFails = 0
    /\ "snapshot" \notin last.exhausted

\* C21: a computation is not aborted by the store of a game log, and a
\* PlayerCache row that exists for a player under one group (the hitting row
\* of identity resolution included) does not keep the log of the other group
\* from being kept: a row of a started player is a row of the contest's group.
C21_GroupsIndependent ==
    Computed =>
        /\ last.outcome = "ok"
        /\ \A e \in StartedOn(0) :
               (e.playerId \in DOMAIN player_cache
                    /\ IsSome(player_cache[e.playerId].game_log)) =>
                   player_cache[e.playerId].group = GroupOf(Ct.stat_category)

\* ------------------------------------------------------------------------ C22
\* C22: two concurrent resolutions of the same unresolved player whose search
\* finds an id both return, with the same id, and leave the one PlayerCache
\* row of the player unless its commits were given up.
C22_ConcurrentResolutionsAgree ==
    \A p, q \in Computations :
        (/\ p # q
         /\ running[p].entry = running[q].entry
         /\ running[p].phase \in {"returned", "raised"}
         /\ running[q].phase \in {"returned", "raised"}
         /\ IsSome(running[p].mlb_id)
         /\ IsSome(running[q].mlb_id)) =>
            /\ running[p].phase = "returned"
            /\ running[q].phase = "returned"
            /\ running[p].mlb_id = running[q].mlb_id
            /\ (running[p].attempts < max_attempts \/ running[q].attempts < max_attempts)
                   => running[p].entry.playerId \in DOMAIN player_cache

\* ------------------------------------------------------------------------ C23
\* The canonical id under which the computation counted an ESPN player id.
Canonical(player_id) ==
    IF player_id \in DOMAIN manual_mlb_mappings THEN manual_mlb_mappings[player_id]
    ELSE mlb_id_cache[player_id]

\* The days of the contest the last computation went through.
ComputedDays == Ct.start_date..Min(Ct.end_date, last.today)

\* The log the computation read for a player has statistics of the day.
HasStatsOn(player_id, d) ==
    LET key == <<player_id, GroupOf(Ct.stat_category)>>
    IN  /\ key \in DOMAIN game_log_cache
        /\ DailyStats(game_log_cache[key], d) # <<>>

\* C23: in a computation no canonical player is added twice on a day, to one
\* team or to two, whatever roster entries resolve to that player; and a player
\* added on one day is added on every other day of the contest on which an
\* entry of the player is started and has statistics.
C23_OncePerDayAndEveryDay ==
    (last.op \in {"create", "get"} /\ last.outcome = "ok" /\ last.executed > 0) =>
        /\ \A i, j \in 1..Len(last.audit) :
               (i # j /\ last.audit[i].date = last.audit[j].date) =>
                   Canonical(last.audit[i].player_id)
                       # Canonical(last.audit[j].player_id)
        /\ \A i \in 1..Len(last.audit) : \A d \in ComputedDays :
               (\E e \in StartedOn(d) :
                    /\ e.playerId = last.audit[i].player_id
                    /\ HasStatsOn(e.playerId, d)) =>
                   \E j \in 1..Len(last.audit) :
                       /\ last.audit[j].date = d
                       /\ Canonical(last.audit[j].player_id)
                              = Canonical(last.audit[i].player_id)

\* A player entered three times in the lineup of every day, on both teams, was
\* added once on day 0 and once on day 1.
C23_Witness ==
    /\ last.op \in {"create", "get"}
    /\ last.outcome = "ok"
    /\ \E i, j \in 1..Len(last.audit) :
           /\ last.audit[i].date # last.audit[j].date
           /\ Canonical(last.audit[i].player_id) = Canonical(last.audit[j].player_id)
           /\ Cardinality({e \in StartedOn(0) :
                              /\ e.playerId \in DOMAIN mlb_id_cache
                              /\ Canonical(e.playerId)
                                     = Canonical(last.audit[i].player_id)}) > 2

\* ------------------------------------------------------------------------ C24
\* The started entries of a day whose identity is unresolved after the request.
StillUnresolved(d) ==
    {e \in StartedOn(d) : /\ e.playerId \notin DOMAIN manual_mlb_mappings
                          /\ e.playerId \notin DOMAIN mlb_id_cache}

RECURSIVE UnresolvedCalls(_)
UnresolvedCalls(d) ==
    IF d < Ct.start_date THEN 0
    ELSE Cardinality(StillUnresolved(d)) + UnresolvedCalls(d - 1)

\* The game log of a resolved entry is held by the process.
LogKept(e) == <<e.playerId, GroupOf(Ct.stat_category)>> \in DOMAIN game_log_cache

\* A resolution that fails leaves no trace in mlb_id_cache or PlayerCache, and
\* the resolution after it calls the name search again.
FailureForgotten(e, env) ==
    LET first == get_mlb_id(Ctx, env, e.fullName, e.playerId)
        again == get_mlb_id(first.c, env, e.fullName, e.playerId)
    IN  ~IsSome(first.id) =>
            /\ first.c.idc = mlb_id_cache
            /\ first.c.db = player_cache
            /\ first.c.statCalls = 1
            /\ again.c.statCalls = 2

Chunks == DOMAIN roster_cache

\* The days of a chunk.
ChunkDays(k) == k[1]..k[2]

\* A computation of a started contest in a new process has returned.
FirstComputed ==
    /\ last.op \in {"create", "get"}
    /\ last.executed = 1
    /\ last.outcome = "ok"
    /\ Ct.start_date <= last.today

\* C25: the aggregation processes every day from the start date through
\* min(end date, today) exactly once and in increasing order, in chunks of at
\* most 7 consecutive days that leave no gap and do not overlap, and the roster
\* of each day is requested with scoring period (day - season start) + 1.
C25_DaysInOrderInWeeklyChunks ==
    FirstComputed =>
        LET first == Ct.start_date
            final == Min(Ct.end_date, last.today)
        IN  /\ last.days = [i \in 1..(final - first + 1) |-> first + (i - 1)]
            /\ \A k \in Chunks : k[1] <= k[2] /\ k[2] - k[1] + 1 <= chunk_size
            /\ UNION {ChunkDays(k) : k \in Chunks} = first..final
            /\ \A k, m \in Chunks : k # m => ChunkDays(k) \cap ChunkDays(m) = {}
            /\ \A k \in Chunks : k[2] # final => k[2] - k[1] + 1 = chunk_size
            /\ Len(last.periods) = Len(last.days)
            /\ \A i \in 1..Len(last.days) :
                   last.periods[i] = ScoringPeriod(last.days[i])

\* A contest of 16 days computed on its last day: three chunks, of 7, 7 and 2
\* days, with a day whose roster request failed.
C25_Witness ==
    /\ FirstComputed
    /\ Len(last.days) = LastDay + 1
    /\ Cardinality(Chunks) = 3
    /\ last.failedDays # {}

\* ------------------------------------------------------------------------ C26
\* The roster entries of a day, of every team.
EntriesOn(d) ==
    UNION {{espn_rosters[d][t].entries[i] : i \in 1..Len(espn_rosters[d][t].entries)} :
           t \in 1..Len(espn_rosters[d])}

\* The effective active-pitcher set of the league.
EffectiveSlots ==
    LET configured == IF league_slots.kind = "json"
                      THEN SeqSet(league_slots.slots) \cap {13, 14, 15}
                      ELSE {}
    IN  IF configured = {} THEN {13, 14, 15} ELSE configured

\* The slot of an entry counts for the contest's category.
SlotCounts(e) ==
    IF GroupOf(Ct.stat_category) = "hitting" THEN e.lineupSlotId <= 12
    ELSE e.lineupSlotId \in EffectiveSlots

\* The roster entries of a day with their teams.
TeamEntriesOn(d) ==
    UNION {{[date |-> d, team |-> espn_rosters[d][t].id,
             entry |-> espn_rosters[d][t].entries[i]] :
               i \in 1..Len(espn_rosters[d][t].entries)} :
           t \in 1..Len(espn_rosters[d])}

Persisted(player_id) ==
    player_id \in DOMAIN player_cache /\ IsSome(player_cache[player_id].game_log)

\* A step leaves every persisted game log as it is; a request (a step that
\* changes last) does not request it from the provider, and adds for its player
\* what the persisted log has of the day.
PersistedLogKept ==
    \A player_id \in DOMAIN player_cache :
        Persisted(player_id) =>
            LET row == player_cache[player_id]
            IN  /\ player_id \in DOMAIN player_cache'
                /\ player_cache'[player_id].game_log = row.game_log
                /\ last' # last =>
                       /\ <<player_id, row.group>> \notin last'.fetched
                       /\ \A j \in 1..Len(last'.audit) :
                              (/\ last'.audit[j].player_id = player_id
                               /\ row.group = GroupOf(The(contest').stat_category)) =>
                                  /\ DailyStats(The(row.game_log), last'.audit[j].date) # <<>>
                                  /\ last'.audit[j].stats =
                                         AggregateDay(DailyStats(The(row.game_log),
                                                                 last'.audit[j].date))

\* C27: once a game log of a player and group is persisted, no later
\* computation requests the provider's game log of that player and group, and
\* what the provider adds to the log afterwards is in no later aggregation.
C27_PersistedLogNeverRefreshed == [][PersistedLogKept]_vars

\* A computation has gone through a day of which the provider's log of a
\* started player now has a game and the persisted log has none: it has not
\* requested the log and has added nothing for the player on that day.
C27_Witness ==
    /\ Computed
    /\ last.outcome = "ok"
    /\ last.memoHits = 0
    /\ \E d \in ComputedDays : \E e \in StartedOn(d) :
           /\ Persisted(e.playerId)
           /\ player_cache[e.playerId].group = GroupOf(Ct.stat_category)
           /\ e.playerId \in DOMAIN manual_mlb_mappings \cup DOMAIN mlb_id_cache
           /\ DailyStats(ProviderLog(Canonical(e.playerId), GroupOf(Ct.stat_category)), d) # <<>>
           /\ DailyStats(The(player_cache[e.playerId].game_log), d) = <<>>
           /\ <<e.playerId, GroupOf(Ct.stat_category)>> \notin last.fetched
           /\ \A j \in 1..Len(last.audit) :
                  ~(last.audit[j].player_id = e.playerId /\ last.audit[j].date = d)

\* ------------------------------------------------------------------------ C28
\* The days of a cached chunk whose roster request failed.
FailedIn(key) == {d \in DOMAIN roster_cache[key] : roster_cache[key][d] = <<>>}

\* The chunk of a computation of the contest today (contests of at most 7 days).
ChunkToday(ct) == <<ct.start_date, Min(ct.end_date, Today)>>

\* A step leaves every cached chunk as it is; a request that goes through a
\* cached chunk with a failed day makes no roster request, adds nothing for
\* that day and reports it as a no-data day.
FailedDayKept ==
    \A key \in DOMAIN roster_cache :
        /\ key \in DOMAIN roster_cache'
        /\ roster_cache'[key] = roster_cache[key]
        /\ (/\ last' # last
            /\ last'.executed > 0
            /\ last'.outcome = "ok"
            /\ key = ChunkToday(The(contest'))) =>
               /\ last'.rosterCalls = 0
               /\ last'.periods = <<>>
               /\ \A d \in FailedIn(key) :
                      /\ \A j \in 1..Len(last'.audit) : last'.audit[j].date # d
                      /\ NoRosterIsNoData(The(contest').stat_category, d) =>
                             d \in SeqSet(The(last'.value).warning_message.days)

\* C28: a roster request that failed is remembered with its chunk: later
\* computations of the process that go through the same chunk do not request
\* the day again and treat it as an empty, no-data day.
C28_FailedRosterDayRemembered == [][FailedDayKept]_vars

\* A request has recomputed a contest whose chunk was cached with a failed day:
\* no roster request, and the day is among the no-data days of its result.
C28_Witness ==
    /\ last.op = "get"
    /\ last.outcome = "ok"
    /\ last.executed > 0
    /\ last.memoHits = 0
    /\ last.rosterCalls = 0
    /\ last.failedDays = {}
    /\ ChunkToday(Ct) \in DOMAIN roster_cache
    /\ \E d \in FailedIn(ChunkToday(Ct)) :
           d \in SeqSet(Value.warning_message.days)

\* ------------------------------------------------------------------------ C29
\* The teams without accepted data: numerator 0 and denominator 0.
NoDataTeams ==
    {i \in 1..Len(last.team_stats) :
        last.team_stats[i].data.num = Zero /\ last.team_stats[i].data.den = Zero}

\* C29: in ERA and WHIP a team without accepted pitching data has the value 0,
\* is ranked before every team with a positive ratio, and is among the winners
\* of a complete contest.
C29_NoDataTeamRankedFirst ==
    (IsSome(contest) /\ Returned /\ Ct.stat_category \in {"ERA", "WHIP"}) =>
        \A i \in NoDataTeams :
            LET a == last.team_stats[i].team
                place == RankOf(Value.rankings, a)
            IN  /\ Value.rankings[place].value = Zero
                /\ \A k \in 1..Len(Value.rankings) :
                       RLess(Zero, Value.rankings[k].value) => place < k
                /\ Value.status.is_complete =>
                       a \in SeqSet(The(Value.status.winner))

\* A complete ERA or WHIP contest in which one team has no data and is the only
\* winner, before a team with a positive ratio.
C29_Witness ==
    /\ IsSome(contest)
    /\ Returned
    /\ Ct.stat_category \in {"ERA", "WHIP"}
    /\ Value.status.is_complete
    /\ Cardinality(NoDataTeams) = 1
    /\ Len(Value.rankings) = 2
    /\ RLess(Zero, Value.rankings[2].value)
    /\ \A i \in NoDataTeams :
           The(Value.status.winner) = <<last.team_stats[i].team>>

\* ------------------------------------------------------------------------ C30
\* The entries of the rankings that stand for a team of the league.
EntriesOf(team) ==
    {k \in 1..Len(Value.rankings) : Value.rankings[k].team = team.name}

\* C30 (as claimed): the rankings of a started contest have exactly one entry
\* for each team the team fetch returns, teams without statistics and teams
\* that share a display name included.
C30_OneEntryPerTeam ==
    (Computed /\ last.outcome = "ok") =>
        /\ Len(Value.rankings) = Len(espn_teams)
        /\ \A i \in 1..Len(espn_teams) : Cardinality(EntriesOf(espn_teams[i])) = 1
        /\ \A i, j \in 1..Len(espn_teams) :
               i # j => EntriesOf(espn_teams[i]) # EntriesOf(espn_teams[j])

====
